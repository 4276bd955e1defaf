-------------------------- MODULE SamplingProofs ----------------------------
(***************************************************************************)
(* What Sampling promises, for every size of the queues, of the blocks and *)
(* of the tests' windows, and for every charset.                           *)
(***************************************************************************)
EXTENDS Sampling, SequenceTheorems, FiniteSetTheorems, WellFoundedInduction, TLAPS

-----------------------------------------------------------------------------
(* The inductive invariant. *)

\* Fifo_Compact has begun
Compacting == {"compactHead", "compactCount"}

\* the main thread is inside StepSampling only while the mode samples, and
\* inside GetBytes only while the mode is not on
Phase ==
  /\ pc \in {"produce", "load", "store"} => sub = "startRound"
  /\ pc \in {"wait", "absorb"} \cup Compacting => sub \in Waiting
  /\ pc \in {"late", "fault"} => sub \in {"startRound"} \cup Waiting
  /\ pc \in {"srcRound", "srcTemp", "srcLight"} => sub = "away"

\* the converter was last started for the block that is waited for
Converter ==
  /\ ready => ~busy
  /\ pc \in {"absorb"} \cup Compacting => ready
  /\ sub \in Waiting => buf = "gen" /\ chan = Waited
  /\ pc = "srcTemp" => buf = "src" /\ chan = "temp"
  /\ pc = "srcLight" => buf = "src" /\ chan = "light"

\* the bits that a draw still takes from channel c before its bit number k
Need(c, k) == IF BitChannel("light", k) = c THEN (drawBits - k + 1) \div 2 ELSE (drawBits - k) \div 2

Drawing ==
  /\ pc \in {"load", "store"} => i < drawBits
  /\ pc \notin {"load", "store"} => i = 0 /\ value = 0
  /\ pc = "load" => value < Span[i]
  /\ pc = "store" => value < Span[i + 1]
  /\ pc = "store" /\ ~wiped => head = pool.fifo[BitChannel("light", i)].head

\* after a panic a draw finds the queues empty: what a block brings after
\* the panic is dropped with the mode, before another draw
Queues ==
  /\ wiped /\ pc \in {"produce", "load", "store"} => \A c \in Channels : Len(pool.fifo[c].bits) = 0
  /\ ~wiped \/ pc \in {"wait", "absorb"} =>
       \A c \in Channels : pool.fifo[c].head <= Len(pool.fifo[c].bits)
  /\ ~wiped /\ pc \in {"load", "store"} =>
       \A c \in Channels : pool.fifo[c].head + Need(c, i) <= Len(pool.fifo[c].bits)

\* what Fifo_Compact loaded is what the queue has, or a panic came since
Compaction ==
  /\ pc \in Compacting => Len(noise[Waited]) >= BlockSamples
  /\ pc = "compactHead" /\ ~wiped => head = pool.fifo[Waited].head
  /\ pc = "compactCount" => pool.fifo[Waited].head <= count
  /\ pc = "compactCount" /\ ~wiped => count = Len(pool.fifo[Waited].bits)
  /\ pc = "overrun" => wiped

Rising(s) == \A k \in 1..Len(s) : \A j \in 1..(k - 1) : s[j] < s[k]

\* the pairs of the blocks that were debiased: the last block is tested
\* before Fifo_Compact, and debiased after it
Pairs(c) == (Len(noise[c]) - (IF pc \in Compacting /\ c = Waited THEN BlockSamples ELSE 0)) \div 2

\* a queue holds bits of the noise of this sampling, in order
Gathered ==
  /\ sub \in {"away", "prompt"} => noise = Empty /\ used = Empty
  /\ \A c \in Channels : Len(noise[c]) % 2 = 0
  /\ ~wiped => \A c \in Channels :
       /\ Rising(pool.fifo[c].bits)
       /\ \A k \in 1..Len(pool.fifo[c].bits) : pool.fifo[c].bits[k] \in 1..Pairs(c)

\* the bits at the front of the queue that were taken, the one whose head is
\* not yet written back with them
Gone(c) == pool.fifo[c].head + (IF pc = "store" /\ BitChannel("light", i) = c THEN 1 ELSE 0)

\* and what was taken from it lies before what it still holds
Spent ==
  ~wiped => \A c \in Channels :
    /\ Rising(used[c])
    /\ \A k \in 1..Len(used[c]) : /\ used[c][k] \in 1..Pairs(c)
                                  /\ \A m \in (Gone(c) + 1)..Len(pool.fifo[c].bits) :
                                       used[c][k] < pool.fifo[c].bits[m]

\* where the window of the adaptive test that holds sample n begins
WindowStart(h, n) == IF n < AptWindow THEN 1 ELSE n - h.pos

Alike(s, w, n) == {j \in w..n : s[j] = s[w]}

\* the sample n ends a run of h.repeat equal ones
RunIs(h, s, n) ==
  /\ h.repeat \in 1..n
  /\ \A j \in (n - h.repeat + 1)..n : s[j] = s[n]
  /\ n > h.repeat => s[n - h.repeat] # s[n]

\* and is at h.pos of its window, with h.match samples like its first; the
\* first window is counted from 1, the others from 0
WindowIs(h, s, n) ==
  /\ n < AptWindow => h.pos = n
  /\ n >= AptWindow => h.pos \in 0..(AptWindow - 1) /\ (n - h.pos) % AptWindow = 0 /\ h.pos < n
  /\ h.ref = s[WindowStart(h, n)]
  /\ h.match = Cardinality(Alike(s, WindowStart(h, n), n))

\* the state h of the tests after the first n samples of s
Describes(h, s, n) ==
  IF n = 0 THEN h = RNG_Health_Init
  ELSE h.started /\ h.last = s[n] /\ RunIs(h, s, n) /\ WindowIs(h, s, n)

\* the end of the window that begins at w, as far as there are samples
WindowEnd(w, n) == IF w + AptWindow - 1 <= n THEN w + AptWindow - 1 ELSE n

\* NoiseIsHealthy of the first n samples of s
Healthy(s, n) ==
  /\ \A k \in RctCutoff..n : \E j \in (k - RctCutoff + 1)..k : s[j] # s[k]
  /\ \A w \in 1..n : w = 1 \/ w % AptWindow = 0 => Cardinality(Alike(s, w, WindowEnd(w, n))) < AptCutoff

Tested ==
  ~wiped /\ pc # "fault" =>
    \A c \in Channels : /\ Describes(pool.health[c], noise[c], Len(noise[c]))
                        /\ Healthy(noise[c], Len(noise[c]))

IInv == TypeOK /\ Phase /\ Converter /\ Drawing /\ Queues /\ Compaction /\ Gathered /\ Spent /\ Tested

-----------------------------------------------------------------------------
(* What the recursive functions of the pool compute. *)

\* a set of numbers that holds 0 and each number's successor is Nat
LEMMA NatSets ==
  ASSUME NEW T \in SUBSET Nat, 0 \in T, \A n \in T : n + 1 \in T
  PROVE  T = Nat
<1> DEFINE R == OpToRel(<, Nat)
<1>1. IsWellFoundedOn(R, Nat)
  BY NatLessThanWellFounded
<1>2. ASSUME NEW x \in Nat, NEW y \in Nat, y < x PROVE <<y, x>> \in R
  BY <1>2 DEF OpToRel
<1> HIDE DEF R
<1>3. SUFFICES ASSUME Nat \ T # {} PROVE FALSE
  OBVIOUS
<1>4. PICK x \in Nat \ T : \A y \in Nat \ T : ~ (<<y, x>> \in R)
  <2>1. (Nat \ T) \subseteq Nat
    OBVIOUS
  <2> QED BY <1>1, <1>3, <2>1, WFMin, Zenon
<1>5. x # 0 /\ x - 1 \in Nat /\ x - 1 < x
  OBVIOUS
<1>6. x - 1 \in T
  BY <1>2, <1>4, <1>5
<1> QED BY <1>4, <1>5, <1>6

\* the same up to m
LEMMA UpTo ==
  ASSUME NEW m \in Nat, NEW T, 0 \in T, \A k \in 0..(m - 1) : k \in T => k + 1 \in T
  PROVE  \A k \in 0..m : k \in T
<1> DEFINE U == {k \in Nat : k <= m => k \in T}
<1>1. U \in SUBSET Nat /\ 0 \in U
  OBVIOUS
<1>2. \A n \in U : n + 1 \in U
  OBVIOUS
<1>3. U = Nat
  BY <1>1, <1>2, NatSets
<1> QED BY <1>3

\* step gives each number up to m a step in S, and g takes them in turn from a
Steps(step, S, m)      == step \in [1..m -> [S -> S]]
Taking(g, step, S, a, m) == g \in [0..m -> S] /\ g[0] = a /\ \A k \in 1..m : g[k] = step[k][g[k - 1]]

\* a function that takes a step at a time from its first value exists, and stays
\* in the set that the steps keep to
LEMMA Recursion ==
  ASSUME NEW S, NEW a \in S, NEW m \in Nat, NEW step, Steps(step, S, m)
  PROVE  \E g : Taking(g, step, S, a, m)
<1> USE DEF Steps, Taking
<1> DEFINE P(n, g) == g[0] = a /\ \A k \in 1..n : g[k] = step[k][g[k - 1]]
           T       == {n \in 0..m : \E g \in [0..n -> S] : P(n, g)}
<1>1. 0 \in T
  <2> DEFINE e == [k \in 0..0 |-> a]
  <2>1. e \in [0..0 -> S] /\ P(0, e)
    OBVIOUS
  <2> HIDE DEF e
  <2>2. 0 \in 0..m
    OBVIOUS
  <2> QED BY <2>1, <2>2
<1>2. ASSUME NEW n \in 0..(m - 1), n \in T PROVE n + 1 \in T
  <2>1. PICK g \in [0..n -> S] : P(n, g)
    BY <1>2
  <2> DEFINE e == [k \in 0..(n + 1) |-> IF k = n + 1 THEN step[n + 1][g[n]] ELSE g[k]]
  <2>2. n + 1 \in 1..m /\ n \in 0..n
    OBVIOUS
  <2>3. step[n + 1] \in [S -> S] /\ g[n] \in S
    BY <2>2
  <2>4. step[n + 1][g[n]] \in S
    BY <2>3
  <2>5. e \in [0..(n + 1) -> S]
    BY <2>4
  <2>6. e[0] = a
    BY <2>1
  <2>7. ASSUME NEW k \in 1..(n + 1) PROVE e[k] = step[k][e[k - 1]]
    <3>1. k - 1 \in 0..n /\ k - 1 # n + 1 /\ k - 1 \in 0..(n + 1)
      OBVIOUS
    <3>2. e[k - 1] = g[k - 1]
      BY <3>1
    <3>3. CASE k = n + 1
      BY <3>1, <3>2, <3>3
    <3>4. CASE k # n + 1
      BY <2>1, <3>1, <3>2, <3>4
    <3> QED BY <3>3, <3>4
  <2> HIDE DEF e
  <2>8. P(n + 1, e)
    BY <2>6, <2>7
  <2> QED BY SMTT(30), <2>2, <2>5, <2>8
<1>3. m \in T
  <2> HIDE DEF T
  <2>1. \A k \in 0..m : k \in T
    BY <1>1, <1>2, UpTo
  <2> QED BY <2>1
<1> QED BY <1>3

\* RNG_Health_Next of a state and a sample is a state
LEMMA NextTypes ==
  ASSUME NEW h \in Healths, NEW x \in Samples
  PROVE  RNG_Health_Next(h, x) \in Healths
BY SamplesAssumption DEF Healths, RNG_Health_Next

\* HealthPath is the recursive function its definition says
LEMMA HealthPathDef ==
  ASSUME NEW h \in Healths, NEW block \in Seq(Samples)
  PROVE  /\ HealthPath(h, block) \in [0..Len(block) -> Healths]
         /\ HealthPath(h, block)[0] = h
         /\ \A k \in 1..Len(block) :
              HealthPath(h, block)[k] = RNG_Health_Next(HealthPath(h, block)[k - 1], block[k])
<1> DEFINE step == [k \in 1..Len(block) |-> [x \in Healths |-> RNG_Health_Next(x, block[k])]]
           G(f) == [k \in 0..Len(block) |-> IF k = 0 THEN h ELSE RNG_Health_Next(f[k - 1], block[k])]
<1>1. Len(block) \in Nat /\ \A k \in 1..Len(block) : block[k] \in Samples
  OBVIOUS
<1>2. step \in [1..Len(block) -> [Healths -> Healths]]
  BY <1>1, NextTypes
<1>3. PICK g \in [0..Len(block) -> Healths] :
        g[0] = h /\ \A k \in 1..Len(block) : g[k] = step[k][g[k - 1]]
  <2> HIDE DEF step
  <2>1. Len(block) \in Nat /\ Steps(step, Healths, Len(block)) /\ h \in Healths
    BY <1>1, <1>2 DEF Steps
  <2>2. \E g : Taking(g, step, Healths, h, Len(block))
    BY <2>1, Recursion, Zenon
  <2> QED BY <2>2 DEF Taking
<1>4. ASSUME NEW k \in 1..Len(block) PROVE g[k] = RNG_Health_Next(g[k - 1], block[k])
  <2>1. k - 1 \in 0..Len(block)
    BY <1>1
  <2>2. g[k - 1] \in Healths
    BY <2>1
  <2>3. g[k] = step[k][g[k - 1]]
    BY <1>3
  <2> QED BY <2>2, <2>3
<1>5. g = G(g)
  BY <1>1, <1>3, <1>4
<1>6. HealthPath(h, block) = CHOOSE f : f = G(f)
  BY DEF HealthPath
<1> DEFINE p == CHOOSE f : f = G(f)
<1>7. p = G(p)
  BY <1>5
<1> HIDE DEF p
<1>8. p[0] = h /\ \A k \in 1..Len(block) : p[k] = RNG_Health_Next(p[k - 1], block[k])
  BY <1>1, <1>7
<1>9. \A k \in 0..Len(block) : p[k] \in Healths
  <2> DEFINE T == {k \in 0..Len(block) : p[k] \in Healths}
  <2>1. 0 \in T
    BY <1>1, <1>8
  <2>2. ASSUME NEW k \in 0..(Len(block) - 1), k \in T PROVE k + 1 \in T
    <3>1. p[k + 1] = RNG_Health_Next(p[k], block[k + 1]) /\ block[k + 1] \in Samples
      BY <1>1, <1>8
    <3> QED BY <1>1, <2>2, <3>1, NextTypes
  <2> HIDE DEF T
  <2>3. \A k \in 0..Len(block) : k \in T
    BY <1>1, <2>1, <2>2, UpTo
  <2> QED BY <2>3 DEF T
<1>10. p \in [0..Len(block) -> Healths]
  BY <1>7, <1>9
<1> QED BY <1>6, <1>8, <1>10 DEF p

-----------------------------------------------------------------------------
(* The pairs of a block. *)

Within(s, lo, hi) == Rising(s) /\ \A k \in 1..Len(s) : s[k] \in lo..hi

\* a number above all of a rising sequence can be appended
LEMMA AppendWithin ==
  ASSUME NEW s \in Seq(Nat), NEW lo \in Nat, NEW hi \in Int, NEW x \in Nat,
         Within(s, lo, hi), hi < x, lo <= x
  PROVE  Within(Append(s, x), lo, x) /\ Append(s, x) \in Seq(Nat)
<1>1. /\ Append(s, x) \in Seq(Nat) /\ Len(Append(s, x)) = Len(s) + 1 /\ Len(s) \in Nat
      /\ \A k \in 1..Len(s) : Append(s, x)[k] = s[k]
      /\ Append(s, x)[Len(s) + 1] = x
  OBVIOUS
<1> DEFINE t == Append(s, x)
<1> HIDE DEF t
<1>2. \A k \in 1..Len(s) : s[k] \in lo..hi
  BY DEF Within
<1>3. \A k \in 1..Len(t) : t[k] \in lo..x
  BY <1>1, <1>2 DEF t
<1>4. ASSUME NEW k \in 1..Len(t), NEW j \in 1..(k - 1) PROVE t[j] < t[k]
  <2>1. j \in 1..Len(s) /\ t[j] = s[j]
    BY <1>1 DEF t
  <2>2. CASE k = Len(s) + 1
    BY <1>1, <1>2, <2>1, <2>2 DEF t
  <2>3. CASE k # Len(s) + 1
    BY <1>1, <2>1, <2>3 DEF t, Within, Rising
  <2> QED BY <2>2, <2>3
<1> QED BY <1>1, <1>3, <1>4 DEF t, Within, Rising

\* they are pairs of the block, in order, and each at most once
LEMMA PairsWithin ==
  ASSUME NEW block \in Seq(Samples), NEW first \in Nat \ {0}
  PROVE  /\ DebiasedPairs(block, first) \in Seq(Nat)
         /\ Within(DebiasedPairs(block, first), first, first + (Len(block) \div 2) - 1)
<1> DEFINE m    == Len(block) \div 2
           kept(k, s) == IF PairYields(block[2 * k - 1], block[2 * k]) THEN Append(s, first + k - 1) ELSE s
           step == [k \in 1..m |-> [s \in Seq(Nat) |-> kept(k, s)]]
           G(f) == [k \in 0..m |-> IF k = 0 THEN <<>> ELSE kept(k, f[k - 1])]
           p    == CHOOSE f : f = G(f)
<1>1. m \in Nat
  OBVIOUS
<1>2. DebiasedPairs(block, first) = p[m]
  <2>1. p = CHOOSE f : f = [k \in 0..m |-> IF k = 0 THEN <<>>
                                           ELSE IF PairYields(block[2 * k - 1], block[2 * k])
                                                THEN Append(f[k - 1], first + k - 1) ELSE f[k - 1]]
    OBVIOUS
  <2> QED BY DEF DebiasedPairs
<1>3. \A k \in 1..m : \A s \in Seq(Nat) : kept(k, s) \in Seq(Nat)
  BY <1>1
<1>4. Steps(step, Seq(Nat), m) /\ <<>> \in Seq(Nat)
  BY <1>3 DEF Steps
<1>5. PICK g : Taking(g, step, Seq(Nat), <<>>, m)
  <2> HIDE DEF step, m
  <2> QED BY <1>1, <1>4, Recursion, Zenon
<1> HIDE DEF m, kept
<1>6. g \in [0..m -> Seq(Nat)] /\ g[0] = <<>> /\ \A k \in 1..m : g[k] = kept(k, g[k - 1])
  <2>1. g \in [0..m -> Seq(Nat)] /\ g[0] = <<>> /\ \A k \in 1..m : g[k] = step[k][g[k - 1]]
    BY <1>5 DEF Taking
  <2>2. ASSUME NEW k \in 1..m PROVE g[k] = kept(k, g[k - 1])
    <3>1. k - 1 \in 0..m
      BY <1>1
    <3>2. g[k - 1] \in Seq(Nat)
      BY <2>1, <3>1
    <3> QED BY <2>1, <3>2
  <2> QED BY <2>1, <2>2
<1>7. g = G(g)
  BY <1>1, <1>6
<1>8. p = G(p)
  BY <1>7
<1> HIDE DEF p
<1>9. p[0] = <<>> /\ \A k \in 1..m : p[k] = kept(k, p[k - 1])
  BY <1>1, <1>8
<1> DEFINE T == {k \in 0..m : p[k] \in Seq(Nat) /\ Within(p[k], first, first + k - 1)}
<1>10. 0 \in T
  <2> DEFINE e == p[0]
  <2>1. e = <<>> /\ Len(e) = 0 /\ e \in Seq(Nat)
    BY <1>9
  <2> HIDE DEF e
  <2>2. ~ \E k \in 1..Len(e) : TRUE
    BY <2>1
  <2>3. Within(e, first, first + 0 - 1)
    BY <2>2, Zenon DEF Within, Rising
  <2>4. p[0] \in Seq(Nat) /\ Within(p[0], first, first + 0 - 1) /\ 0 \in 0..m
    BY <1>1, <2>1, <2>3 DEF e
  <2> QED BY <2>4, Zenon
<1>11. ASSUME NEW k \in 0..(m - 1), k \in T PROVE k + 1 \in T
  <2>1. k + 1 \in 1..m /\ k + 1 - 1 = k /\ k + 1 \in 0..m
    BY <1>1
  <2>2. p[k + 1] = kept(k + 1, p[k]) /\ p[k] \in Seq(Nat) /\ Within(p[k], first, first + k - 1)
    BY <1>9, <1>11, <2>1
  <2>3. CASE p[k + 1] = p[k]
    BY <2>1, <2>2, <2>3 DEF Within
  <2>4. CASE p[k + 1] = Append(p[k], first + k)
    <3>1. Within(Append(p[k], first + k), first, first + k) /\ Append(p[k], first + k) \in Seq(Nat)
      <4> DEFINE s == p[k]
                 hi == first + k - 1
                 x == first + k
      <4>1. s \in Seq(Nat) /\ first \in Nat /\ hi \in Int /\ x \in Nat /\ Within(s, first, hi)
            /\ hi < x /\ first <= x
        BY <2>2
      <4> HIDE DEF s, hi, x
      <4>2. Within(Append(s, x), first, x) /\ Append(s, x) \in Seq(Nat)
        BY <4>1, AppendWithin, Zenon
      <4> QED BY <4>2 DEF s, x
    <3>2. first + (k + 1) - 1 = first + k
      OBVIOUS
    <3> QED BY <2>1, <2>4, <3>1, <3>2
  <2>5. kept(k + 1, p[k]) \in {p[k], Append(p[k], first + k)}
    <3>1. first + (k + 1) - 1 = first + k
      OBVIOUS
    <3> QED BY <3>1 DEF kept
  <2> QED BY <2>2, <2>3, <2>4, <2>5
<1>12. m \in T
  <2> HIDE DEF T
  <2>1. \A k \in 0..m : k \in T
    BY <1>1, <1>10, <1>11, UpTo
  <2> QED BY <1>1, <2>1
<1> QED BY <1>2, <1>12 DEF m

-----------------------------------------------------------------------------
(* The number of bits of a draw. *)

\* Span is the recursive function its definition says
LEMMA SpanDef ==
  /\ Span \in [0..MaxDrawBits -> Nat \ {0}]
  /\ Span[0] = 1
  /\ \A b \in 1..MaxDrawBits : Span[b] = 2 * Span[b - 1]
<1> DEFINE m    == MaxDrawBits
           S    == Nat \ {0}
           step == [k \in 1..m |-> [x \in S |-> 2 * x]]
           G(f) == [k \in 0..m |-> IF k = 0 THEN 1 ELSE 2 * f[k - 1]]
           p    == CHOOSE f : f = G(f)
<1>1. m \in Nat
  BY PoolAssumption
<1>2. Span = p
  BY DEF Span
<1>3. Steps(step, S, m) /\ 1 \in S
  BY DEF Steps
<1>4. PICK g : Taking(g, step, S, 1, m)
  <2> HIDE DEF step, m, S
  <2> QED BY <1>1, <1>3, Recursion, Zenon
<1> HIDE DEF m
<1>5. g \in [0..m -> S] /\ g[0] = 1 /\ \A k \in 1..m : g[k] = 2 * g[k - 1]
  <2>1. g \in [0..m -> S] /\ g[0] = 1 /\ \A k \in 1..m : g[k] = step[k][g[k - 1]]
    BY <1>4 DEF Taking
  <2>2. ASSUME NEW k \in 1..m PROVE g[k] = 2 * g[k - 1]
    <3>1. k - 1 \in 0..m
      BY <1>1
    <3>2. g[k - 1] \in S
      BY <2>1, <3>1
    <3> QED BY <2>1, <3>2
  <2> QED BY <2>1, <2>2
<1>6. g = G(g)
  BY <1>1, <1>5
<1>7. p = G(p)
  BY <1>6
<1> HIDE DEF p
<1>8. p[0] = 1 /\ \A k \in 1..m : p[k] = 2 * p[k - 1]
  BY <1>1, <1>7
<1> DEFINE T == {k \in 0..m : p[k] \in S}
<1>9. 0 \in T /\ \A k \in 0..(m - 1) : k \in T => k + 1 \in T
  BY <1>1, <1>8
<1>10. \A k \in 0..m : k \in T
  <2> HIDE DEF T
  <2> QED BY <1>1, <1>9, UpTo
<1>11. p \in [0..m -> S]
  BY <1>7, <1>10
<1> QED BY <1>2, <1>8, <1>11 DEF m

\* more bits have no fewer values
LEMMA SpanRises ==
  ASSUME NEW a \in 0..MaxDrawBits, NEW b \in 0..MaxDrawBits, a <= b
  PROVE  Span[a] <= Span[b]
<1>1. a \in Nat /\ MaxDrawBits \in Nat /\ Span[a] \in Nat
  <2>1. MaxDrawBits \in Nat
    BY PoolAssumption
  <2>2. a \in Nat
    BY <2>1
  <2> QED BY <2>1, <2>2, SpanDef
<1> DEFINE T == {k \in 0..MaxDrawBits : a <= k => Span[a] <= Span[k]}
<1>2. 0 \in T
  BY <1>1, SpanDef
<1>3. ASSUME NEW k \in 0..(MaxDrawBits - 1), k \in T PROVE k + 1 \in T
  <2>1. Span[k + 1] = 2 * Span[k] /\ Span[k] \in Nat \ {0}
    BY <1>1, SpanDef
  <2> QED BY <1>1, <1>3, <2>1
<1>4. \A k \in 0..MaxDrawBits : k \in T
  <2> HIDE DEF T
  <2> QED BY <1>1, <1>2, <1>3, UpTo
<1> QED BY <1>4

\* the accepted draws are a positive multiple of the range, and fewer than
\* range draws are rejected
LEMMA Accepted ==
  ASSUME NEW b \in 0..MaxDrawBits, NEW range \in Nat \ {0}, range <= Span[b]
  PROVE  /\ AcceptBelow(range, b) \in 1..Span[b]
         /\ AcceptBelow(range, b) % range = 0
         /\ Span[b] - AcceptBelow(range, b) < range
<1> DEFINE s == Span[b]
           q == s \div range
<1>1. s \in Nat \ {0} /\ range <= s
  BY SpanDef
<1> HIDE DEF s
<1>2. q \in Nat /\ s = range * q + (s % range) /\ s % range \in 0..(range - 1)
  BY <1>1
<1>3. AcceptBelow(range, b) = q * range
  BY DEF AcceptBelow, s
<1> HIDE DEF q
<1>4. q # 0
  BY <1>1, <1>2
<1>5. q * range \in Nat /\ q * range # 0 /\ q * range = range * q
  BY <1>2, <1>4
<1>6. (q * range) % range = 0
  BY <1>2
<1> QED BY <1>1, <1>2, <1>3, <1>5, <1>6 DEF s

\* a common factor does not change an order
LEMMA Scale ==
  ASSUME NEW x \in Nat, NEW y \in Nat, NEW z \in Nat \ {0}
  PROVE  x * z < y * z <=> x < y
OBVIOUS

\* x in X is better than y in Y, and y in Y no worse than z in Z
LEMMA Ratios ==
  ASSUME NEW x \in Nat, NEW y \in Nat, NEW z \in Nat,
         NEW X \in Nat \ {0}, NEW Y \in Nat \ {0}, NEW Z \in Nat \ {0},
         x * Y < y * X, y * Z <= z * Y
  PROVE  x * Z < z * X
<1>1. (x * Y) * Z < (y * X) * Z
  <2>1. x * Y \in Nat /\ y * X \in Nat
    OBVIOUS
  <2> QED BY <2>1, Scale
<1>2. (y * Z) * X <= (z * Y) * X
  <2>1. y * Z \in Nat /\ z * Y \in Nat
    OBVIOUS
  <2>2. ~ ((z * Y) * X < (y * Z) * X)
    BY <2>1, Scale
  <2>3. (y * Z) * X \in Nat /\ (z * Y) * X \in Nat
    BY <2>1
  <2> QED BY <2>2, <2>3
<1>3. (x * Y) * Z = (x * Z) * Y /\ (y * X) * Z = (y * Z) * X /\ (z * Y) * X = (z * X) * Y
  OBVIOUS
<1>4. x * Z \in Nat /\ z * X \in Nat
  OBVIOUS
<1>5. (x * Z) * Y < (z * X) * Y
  <2>1. (x * Z) * Y \in Nat /\ (z * X) * Y \in Nat /\ (y * Z) * X \in Nat
    BY <1>4
  <2> QED BY <1>1, <1>2, <1>3, <2>1
<1> QED BY <1>4, <1>5, Scale

Cost(b) == b * Span[b]

\* b bits are a better choice than a bits
Better(range, b, a) ==
  \/ Cost(b) * AcceptBelow(range, a) < Cost(a) * AcceptBelow(range, b)
  \/ Cost(b) * AcceptBelow(range, a) = Cost(a) * AcceptBelow(range, b) /\ b <= a

\* the loop of Entropy_Pool_DrawBits replaces its best by a better choice only,
\* and keeps it against a worse one only
LEMMA CheaperIsBetter ==
  ASSUME NEW range \in Nat \ {0}, NEW b \in 1..MaxDrawBits, NEW last \in 1..MaxDrawBits,
         range <= Span[b], range <= Span[last], last <= b
  PROVE  /\ ~ Cheaper(range, b, last) => Better(range, last, b)
         /\ Cheaper(range, b, last) =>
              \A a \in 1..MaxDrawBits : range <= Span[a] /\ Better(range, last, a) => Better(range, b, a)
<1>1. MaxDrawBits \in Nat
  BY PoolAssumption
<1>2. \A a \in 1..MaxDrawBits : Cost(a) \in Nat
  <2>1. ASSUME NEW a \in 1..MaxDrawBits PROVE Cost(a) \in Nat
    <3>0. a \in Nat /\ a \in 0..MaxDrawBits
      BY <1>1
    <3>1. Span[a] \in Nat
      <4>1. Span \in [0..MaxDrawBits -> Nat \ {0}]
        BY SpanDef
      <4> QED BY <3>0, <4>1
    <3>2. a * Span[a] \in Nat
      BY <3>0, <3>1
    <3> QED BY <3>2 DEF Cost
  <2> QED BY <2>1
<1>3. \A a \in 1..MaxDrawBits : range <= Span[a] => AcceptBelow(range, a) \in Nat \ {0}
  <2>1. ASSUME NEW a \in 1..MaxDrawBits, range <= Span[a] PROVE AcceptBelow(range, a) \in Nat \ {0}
    <3>1. a \in 0..MaxDrawBits /\ Span[a] \in Nat
      BY SMTT(30), <1>1, SpanDef
    <3>2. AcceptBelow(range, a) \in 1..Span[a]
      BY <2>1, <3>1, Accepted
    <3> QED BY <3>1, <3>2
  <2> QED BY <2>1
<1>4. Cheaper(range, b, last) <=> Cost(b) * AcceptBelow(range, last) < Cost(last) * AcceptBelow(range, b)
  BY Zenon DEF Cheaper, Cost
<1>5. Cost(b) \in Nat /\ Cost(last) \in Nat /\ AcceptBelow(range, b) \in Nat \ {0}
      /\ AcceptBelow(range, last) \in Nat \ {0}
  BY <1>2, <1>3
<1>6. Cost(b) * AcceptBelow(range, last) \in Nat /\ Cost(last) * AcceptBelow(range, b) \in Nat
  BY <1>5
<1>7. ASSUME ~ Cheaper(range, b, last) PROVE Better(range, last, b)
  BY <1>4, <1>6, <1>7 DEF Better
<1>8. ASSUME Cheaper(range, b, last), NEW a \in 1..MaxDrawBits, range <= Span[a], Better(range, last, a)
      PROVE  Better(range, b, a)
  <2>1. Cost(a) \in Nat /\ AcceptBelow(range, a) \in Nat \ {0}
    BY <1>2, <1>3, <1>8
  <2>2. Cost(last) * AcceptBelow(range, a) \in Nat /\ Cost(a) * AcceptBelow(range, last) \in Nat
    BY <1>5, <2>1
  <2>3. Cost(last) * AcceptBelow(range, a) <= Cost(a) * AcceptBelow(range, last)
    BY <1>8, <2>2 DEF Better
  <2>4. Cost(b) * AcceptBelow(range, a) < Cost(a) * AcceptBelow(range, b)
    <3> DEFINE x == Cost(b)
               y == Cost(last)
               z == Cost(a)
               X == AcceptBelow(range, b)
               Y == AcceptBelow(range, last)
               Z == AcceptBelow(range, a)
    <3>1. /\ x \in Nat /\ y \in Nat /\ z \in Nat
          /\ X \in Nat \ {0} /\ Y \in Nat \ {0} /\ Z \in Nat \ {0}
          /\ x * Y < y * X /\ y * Z <= z * Y
      BY <1>4, <1>5, <1>8, <2>1, <2>3
    <3> HIDE DEF x, y, z, X, Y, Z
    <3>2. x * Z < z * X
      BY <3>1, Ratios, Zenon
    <3> QED BY <3>2 DEF x, z, X, Z
  <2> QED BY <2>4 DEF Better
<1> QED BY <1>7, <1>8

\* the loop finds the best number of bits
LEMMA BestBits ==
  ASSUME NEW range \in 1..Span[MaxDrawBits]
  PROVE  LET b == Entropy_Pool_DrawBits(range)
         IN  /\ b \in 1..MaxDrawBits /\ range <= Span[b]
             /\ \A a \in 1..MaxDrawBits : range <= Span[a] => Better(range, b, a)
<1> DEFINE m    == MaxDrawBits
           kept(b, last) == IF Span[b] >= range /\ (last = 0 \/ Cheaper(range, b, last)) THEN b ELSE last
           step == [b \in 1..m |-> [last \in 0..m |-> kept(b, last)]]
           G(f) == [b \in 0..m |-> IF b = 0 THEN 0 ELSE kept(b, f[b - 1])]
           p    == CHOOSE f : f = G(f)
<1>1. m \in Nat \ {0} /\ Span[m] \in Nat /\ range \in Nat \ {0} /\ range <= Span[m]
  <2>1. m \in Nat \ {0}
    BY PoolAssumption
  <2>2. Span[m] \in Nat
    BY <2>1, SpanDef
  <2> QED BY <2>1, <2>2
<1>2. Entropy_Pool_DrawBits(range) = p[m]
  <2>1. p = CHOOSE f : f = [b \in 0..m |-> IF b = 0 THEN 0
                              ELSE LET last == f[b - 1]
                                   IN  IF Span[b] >= range /\ (last = 0 \/ Cheaper(range, b, last)) THEN b ELSE last]
    OBVIOUS
  <2> QED BY <2>1 DEF Entropy_Pool_DrawBits
<1>3. Steps(step, 0..m, m) /\ 0 \in 0..m
  BY <1>1 DEF Steps
<1>4. PICK g : Taking(g, step, 0..m, 0, m)
  <2> HIDE DEF step, m
  <2>1. m \in Nat
    BY <1>1
  <2> QED BY <2>1, <1>3, Recursion, Zenon
<1> HIDE DEF m, kept
<1>5. g \in [0..m -> 0..m] /\ g[0] = 0 /\ \A k \in 1..m : g[k] = kept(k, g[k - 1])
  <2>1. g \in [0..m -> 0..m] /\ g[0] = 0 /\ \A k \in 1..m : g[k] = step[k][g[k - 1]]
    BY <1>4 DEF Taking
  <2>2. ASSUME NEW k \in 1..m PROVE g[k] = kept(k, g[k - 1])
    <3>1. k - 1 \in 0..m
      BY <1>1
    <3>2. g[k - 1] \in 0..m
      BY <2>1, <3>1
    <3> QED BY <2>1, <3>2
  <2> QED BY <2>1, <2>2
<1>6. g = G(g)
  BY <1>1, <1>5
<1>7. p = G(p)
  BY <1>6
<1> HIDE DEF p
<1>8. p[0] = 0 /\ \A k \in 1..m : p[k] = kept(k, p[k - 1])
  BY <1>1, <1>7
<1> DEFINE None(b) == \A a \in 1..b : Span[a] < range
           Best(b, k) == /\ k \in 1..b /\ range <= Span[k]
                         /\ \A a \in 1..b : range <= Span[a] => Better(range, k, a)
           T == {b \in 0..m : (p[b] = 0 /\ None(b)) \/ Best(b, p[b])}
<1>9. 0 \in T
  <2>1. None(0)
    OBVIOUS
  <2> HIDE DEF None, Best
  <2> QED BY <1>1, <1>8, <2>1
<1>10. ASSUME NEW b \in 0..(m - 1), b \in T PROVE b + 1 \in T
  <2>1. b + 1 \in 1..m /\ b + 1 \in 0..m /\ b \in 0..m /\ b \in Nat
    BY <1>1
  <2>2. p[b + 1] = kept(b + 1, p[b])
    <3>1. b + 1 - 1 = b
      BY <2>1
    <3> QED BY <1>8, <2>1, <3>1
  <2>3. Span[b + 1] \in Nat /\ \A a \in 1..m : Span[a] \in Nat
    BY <2>1, SpanDef DEF m
  <2>4. CASE Span[b + 1] < range
    <3>1. p[b + 1] = p[b]
      BY <1>1, <2>2, <2>3, <2>4 DEF kept
    <3>2. ASSUME None(b) PROVE None(b + 1)
      BY <2>1, <2>4, <3>2
    <3>3. ASSUME Best(b, p[b]) PROVE Best(b + 1, p[b])
      BY <1>1, <2>1, <2>3, <2>4, <3>3
    <3> HIDE DEF None, Best
    <3> QED BY <1>10, <2>1, <3>1, <3>2, <3>3
  <2>5. CASE range <= Span[b + 1] /\ p[b] = 0 /\ None(b)
    <3>1. p[b + 1] = b + 1
      BY <1>1, <2>2, <2>3, <2>5 DEF kept
    <3>2. Better(range, b + 1, b + 1)
      <4>1. Cost(b + 1) * AcceptBelow(range, b + 1) = Cost(b + 1) * AcceptBelow(range, b + 1) /\ b + 1 <= b + 1
        BY <2>1
      <4> QED BY <4>1 DEF Better
    <3>3. Best(b + 1, b + 1)
      BY <1>1, <2>1, <2>3, <2>5, <3>2
    <3> HIDE DEF None, Best
    <3> QED BY <2>1, <3>1, <3>3
  <2>6. CASE range <= Span[b + 1] /\ Best(b, p[b])
    <3> DEFINE k == p[b]
    <3>1. k \in 1..b /\ k \in 1..MaxDrawBits /\ range <= Span[k] /\ k <= b + 1 /\ k # 0
      BY <1>1, <2>1, <2>6 DEF m
    <3>2. b + 1 \in 1..MaxDrawBits
      BY <2>1 DEF m
    <3>3. \A a \in 1..b : range <= Span[a] => Better(range, k, a)
      BY <2>6
    <3> HIDE DEF k
    <3>4. CASE Cheaper(range, b + 1, k)
      <4>1. p[b + 1] = b + 1
        BY <1>1, <2>2, <2>3, <2>6, <3>4 DEF kept, k
      <4>2. Better(range, b + 1, b + 1)
        <5>1. Cost(b + 1) * AcceptBelow(range, b + 1) = Cost(b + 1) * AcceptBelow(range, b + 1) /\ b + 1 <= b + 1
          BY <2>1
        <5> QED BY <5>1 DEF Better
      <4>3. \A a \in 1..MaxDrawBits : range <= Span[a] /\ Better(range, k, a) => Better(range, b + 1, a)
        BY <1>1, <2>6, <3>1, <3>2, <3>4, CheaperIsBetter
      <4>4. ASSUME NEW a \in 1..(b + 1), range <= Span[a] PROVE Better(range, b + 1, a)
        <5>1. CASE a = b + 1
          BY <4>2, <5>1
        <5>2. CASE a \in 1..b
          <6>1. a \in 1..MaxDrawBits
            BY <1>1, <2>1, <5>2 DEF m
          <6> QED BY <3>3, <4>3, <4>4, <5>2, <6>1
        <5> QED BY <2>1, <5>1, <5>2
      <4>5. Best(b + 1, b + 1)
        BY <2>1, <2>6, <4>4
      <4> HIDE DEF None, Best
      <4> QED BY <2>1, <4>1, <4>5
    <3>5. CASE ~ Cheaper(range, b + 1, k)
      <4>1. p[b + 1] = k
        BY <1>1, <2>2, <2>3, <2>6, <3>1, <3>5 DEF kept, k
      <4>2. Better(range, k, b + 1)
        BY <1>1, <2>6, <3>1, <3>2, <3>5, CheaperIsBetter
      <4>3. ASSUME NEW a \in 1..(b + 1), range <= Span[a] PROVE Better(range, k, a)
        BY <2>1, <3>3, <4>2, <4>3
      <4>4. Best(b + 1, k)
        BY <2>1, <3>1, <4>3
      <4> HIDE DEF None, Best
      <4> QED BY <2>1, <4>1, <4>4
    <3> QED BY <3>4, <3>5
  <2> HIDE DEF None, Best
  <2> QED BY <1>1, <1>10, <2>3, <2>4, <2>5, <2>6
<1>11. m \in T
  <2> HIDE DEF T
  <2>1. m \in Nat
    BY <1>1
  <2>2. \A b \in 0..m : b \in T
    BY <1>9, <1>10, <2>1, UpTo
  <2> QED BY <2>1, <2>2
<1>12. Best(m, p[m])
  <2>1. ~ None(m)
    BY <1>1
  <2> HIDE DEF None, Best
  <2> QED BY <1>11, <2>1
<1> HIDE DEF T
<1> QED BY <1>1, <1>2, <1>12 DEF m

-----------------------------------------------------------------------------
(* The tests of a channel, a sample and a block at a time. *)

-----------------------------------------------------------------------------
(* The tests of a channel. *)

\* two multiples of m that are less than m apart are the same
LEMMA SameMultiple ==
  ASSUME NEW m \in Nat \ {0}, NEW v \in Nat, NEW w \in Nat, v % m = 0, w % m = 0,
         v < w + m, w < v + m
  PROVE  v = w
<1> DEFINE p == v \div m
           q == w \div m
<1>1. p \in Nat /\ q \in Nat /\ v = m * p /\ w = m * q
  OBVIOUS
<1> HIDE DEF p, q
<1>2. m * p = p * m /\ m * q = q * m /\ m * p + m = (p + 1) * m /\ m * q + m = (q + 1) * m
  BY <1>1
<1>3. p * m < (q + 1) * m /\ q * m < (p + 1) * m
  BY <1>1, <1>2
<1>4. p < q + 1 /\ q < p + 1
  BY <1>1, <1>3, Scale
<1> QED BY <1>1, <1>4

\* the next multiple of m
LEMMA NextMultiple ==
  ASSUME NEW m \in Nat \ {0}, NEW v \in Nat, v % m = 0
  PROVE  (v + m) % m = 0
<1> DEFINE p == v \div m
<1>1. p \in Nat /\ v = m * p
  OBVIOUS
<1> HIDE DEF p
<1>2. v + m = (p + 1) * m
  BY <1>1
<1>3. ((p + 1) * m) % m = 0
  BY <1>1
<1> QED BY <1>2, <1>3

\* the samples like the first of a window, with one more sample
LEMMA AlikeNext ==
  ASSUME NEW s, NEW w \in Nat \ {0}, NEW n \in Nat, w <= n + 1
  PROVE  /\ IsFiniteSet(Alike(s, w, n)) /\ Cardinality(Alike(s, w, n)) \in Nat
         /\ Cardinality(Alike(s, w, n + 1)) =
              Cardinality(Alike(s, w, n)) + (IF s[n + 1] = s[w] THEN 1 ELSE 0)
<1>1. IsFiniteSet(w..n)
  BY FS_Interval
<1>2. Alike(s, w, n) \subseteq w..n /\ n + 1 \notin Alike(s, w, n)
  BY DEF Alike
<1>3. IsFiniteSet(Alike(s, w, n)) /\ Cardinality(Alike(s, w, n)) \in Nat
  BY <1>1, <1>2, FS_Subset, FS_CardinalityType
<1>4. CASE s[n + 1] = s[w]
  <2>1. Alike(s, w, n + 1) = Alike(s, w, n) \cup {n + 1}
    BY <1>4 DEF Alike
  <2> QED BY <1>2, <1>3, <1>4, <2>1, FS_AddElement
<1>5. CASE s[n + 1] # s[w]
  <2>1. Alike(s, w, n + 1) = Alike(s, w, n)
    BY <1>5 DEF Alike
  <2> QED BY <1>3, <1>5, <2>1
<1> QED BY <1>3, <1>4, <1>5

\* one good sample more
LEMMA TestStep ==
  ASSUME NEW h \in Healths, NEW s \in Seq(Samples), NEW n \in Nat, n < Len(s),
         Describes(h, s, n), Healthy(s, n), RNG_Health_Ok(h, s[n + 1])
  PROVE  Describes(RNG_Health_Next(h, s[n + 1]), s, n + 1) /\ Healthy(s, n + 1)
<1> DEFINE x == s[n + 1]
           t == RNG_Health_Next(h, x)
           w == WindowStart(h, n)
           over == h.pos + 1 >= AptWindow
<1>1. /\ RctCutoff \in Nat /\ RctCutoff > 1 /\ AptCutoff \in Nat /\ AptCutoff > 1
      /\ AptWindow \in Nat /\ AptWindow > 1
  BY CutoffsAssumption
<1>2. Len(s) \in Nat /\ x \in Samples /\ \A k \in 1..Len(s) : s[k] \in Samples
  OBVIOUS
<1>3. h.pos \in Nat /\ h.repeat \in Nat /\ h.match \in Nat
  BY DEF Healths
<1>4. Cardinality(Alike(s, n + 1, n + 1)) = 1
  <2>1. Alike(s, n + 1, n + 1) = {n + 1}
    BY DEF Alike
  <2> QED BY <2>1, FS_Singleton
<1>5. CASE n = 0
  <2>1. t = [started |-> TRUE, last |-> x, repeat |-> 1, ref |-> x, match |-> 1, pos |-> 1]
    BY <1>5 DEF RNG_Health_Next, RNG_Health_Init, Describes
  <2> HIDE DEF t, x
  <2>2. WindowStart(t, n + 1) = 1
    BY <1>1, <1>5, <2>1 DEF WindowStart
  <2>3. Describes(t, s, n + 1)
    <3>1. RunIs(t, s, n + 1)
      BY <1>1, <1>5, <2>1 DEF RunIs, x
    <3>2. WindowIs(t, s, n + 1)
      BY <1>1, <1>4, <1>5, <2>1, <2>2 DEF WindowIs, x
    <3>4. t.started /\ t.last = x
      BY <2>1, Zenon
    <3>3. t.started /\ t.last = s[n + 1] /\ n + 1 # 0
      BY <3>4 DEF x
    <3> QED BY <3>1, <3>2, <3>3, Zenon DEF Describes
  <2>4. Healthy(s, n + 1)
    <3>1. \A v \in 1..(n + 1) : v = n + 1 /\ WindowEnd(v, n + 1) = n + 1
      BY <1>1, <1>5 DEF WindowEnd
    <3> QED BY <1>1, <1>4, <1>5, <3>1 DEF Healthy
  <2> QED BY <2>3, <2>4 DEF t, x
<1>6. CASE n > 0
  <2>1. /\ h.started /\ h.last = s[n]
        /\ h.repeat \in 1..n
        /\ \A j \in (n - h.repeat + 1)..n : s[j] = s[n]
        /\ n > h.repeat => s[n - h.repeat] # s[n]
        /\ h.ref = s[w] /\ h.match = Cardinality(Alike(s, w, n))
    BY <1>6 DEF Describes, RunIs, WindowIs
  <2>2. /\ n < AptWindow => h.pos = n
        /\ ~ (n < AptWindow) => h.pos \in 0..(AptWindow - 1) /\ (n - h.pos) % AptWindow = 0 /\ h.pos < n
    BY <1>1, <1>6 DEF Describes, WindowIs
  <2>3. ~ (x = s[n] /\ h.repeat + 1 >= RctCutoff) /\ ~ (x = s[w] /\ h.match + 1 >= AptCutoff)
    BY <2>1 DEF RNG_Health_Ok
  <2>4. /\ t.started /\ t.last = x
        /\ t.repeat = IF x = s[n] THEN h.repeat + 1 ELSE 1
        /\ t.ref = IF over THEN x ELSE s[w]
        /\ t.match = IF over THEN 1 ELSE h.match + (IF x = s[w] THEN 1 ELSE 0)
        /\ t.pos = IF over THEN 0 ELSE h.pos + 1
    BY <2>1 DEF RNG_Health_Next
  <2>5. w \in 1..n /\ (n < AptWindow => w = 1) /\ (~ (n < AptWindow) => w = n - h.pos)
    BY SMTT(30), <1>1, <1>3, <1>6, <2>2 DEF WindowStart
  <2>6. w % AptWindow = 0 \/ (w = 1 /\ n < AptWindow)
    BY <1>1, <2>2, <2>5
  <2> HIDE DEF t, x, w
  <2>7. Cardinality(Alike(s, w, n)) \in Nat
        /\ Cardinality(Alike(s, w, n + 1)) = Cardinality(Alike(s, w, n)) + (IF x = s[w] THEN 1 ELSE 0)
    <3>1. w \in Nat \ {0} /\ w <= n + 1
      BY <2>5
    <3> QED BY <3>1, AlikeNext DEF x
  <2>8. WindowStart(t, n + 1) = IF over THEN n + 1 ELSE w
    <3>1. CASE over
      BY <1>1, <1>3, <2>2, <2>4, <3>1 DEF WindowStart
    <3>2. CASE ~ over
      BY SMTT(30), <1>1, <1>3, <2>2, <2>4, <2>5, <3>2 DEF WindowStart
    <3> QED BY <3>1, <3>2
  <2>9. /\ t.repeat \in 1..(n + 1)
        /\ \A j \in (n + 1 - t.repeat + 1)..(n + 1) : s[j] = s[n + 1]
        /\ n + 1 > t.repeat => s[n + 1 - t.repeat] # s[n + 1]
    <3>1. CASE x = s[n]
      <4>1. t.repeat = h.repeat + 1 /\ s[n + 1] = s[n]
        BY <2>4, <3>1 DEF x
      <4>3. n + 1 - t.repeat = n - h.repeat /\ t.repeat \in 1..(n + 1) /\ (n + 1 > t.repeat <=> n > h.repeat)
            /\ n + 1 - t.repeat + 1 = n - h.repeat + 1
        <5> DEFINE r == h.repeat
                   q == t.repeat
        <5>1. r \in 1..n /\ q = r + 1
          BY <2>1, <4>1
        <5> HIDE DEF r, q
        <5>2. n + 1 - q = n - r /\ q \in 1..(n + 1) /\ (n + 1 > q <=> n > r) /\ n + 1 - q + 1 = n - r + 1
          BY <5>1
        <5> QED BY <5>2 DEF r, q
      <4>2. \A j \in (n - h.repeat + 1)..(n + 1) : s[j] = s[n + 1]
        BY <2>1, <4>1
      <4> QED BY <2>1, <4>1, <4>2, <4>3
    <3>2. CASE x # s[n]
      BY <2>4, <3>2 DEF x
    <3> QED BY <3>1, <3>2
  <2>10. /\ n + 1 < AptWindow => t.pos = n + 1
         /\ n + 1 >= AptWindow => t.pos \in 0..(AptWindow - 1) /\ (n + 1 - t.pos) % AptWindow = 0 /\ t.pos < n + 1
    <3>1. CASE n + 1 < AptWindow
      BY <1>1, <1>3, <2>2, <2>4, <3>1
    <3>2. CASE ~ (n + 1 < AptWindow) /\ ~ over
      <4>1. t.pos = h.pos + 1
        BY <2>4, <3>2
      <4>2. ~ (n < AptWindow)
        BY <1>1, <2>2, <3>2
      <4>3. n + 1 - t.pos = n - h.pos /\ t.pos \in 0..(AptWindow - 1) /\ t.pos < n + 1
        BY <1>1, <1>3, <2>2, <3>2, <4>1, <4>2
      <4> QED BY <2>2, <3>2, <4>2, <4>3
    <3>3. CASE ~ (n + 1 < AptWindow) /\ over
      <4>1. t.pos = 0 /\ n + 1 - t.pos = n + 1
        BY <1>1, <2>4, <3>3
      <4>2. CASE n < AptWindow
        <5>1. n + 1 = 0 + AptWindow /\ 0 % AptWindow = 0
          BY <1>1, <3>3, <4>2
        <5>2. (n + 1) % AptWindow = 0
          BY <1>1, <5>1, NextMultiple
        <5> QED BY <1>1, <3>3, <4>1, <5>2
      <4>3. CASE ~ (n < AptWindow)
        <5>3. h.pos = AptWindow - 1
          BY <1>1, <1>3, <2>2, <3>3, <4>3
        <5>1. n + 1 = (n - h.pos) + AptWindow /\ n - h.pos \in Nat
          BY <1>1, <4>3, <5>3
        <5>2. (n + 1) % AptWindow = 0
          BY SMTT(30), <1>1, <2>2, <4>3, <5>1, NextMultiple
        <5> QED BY <1>1, <3>3, <4>1, <5>2
      <4> QED BY <4>2, <4>3
    <3> QED BY <3>1, <3>2, <3>3
  <2>11. t.ref = s[WindowStart(t, n + 1)] /\ t.match = Cardinality(Alike(s, WindowStart(t, n + 1), n + 1))
    BY <1>4, <2>1, <2>4, <2>7, <2>8 DEF x
  <2>12. Describes(t, s, n + 1)
    <3>1. n + 1 # 0
      OBVIOUS
    <3>2. RunIs(t, s, n + 1)
      BY <2>9 DEF RunIs
    <3>3. WindowIs(t, s, n + 1)
      BY <2>10, <2>11 DEF WindowIs
    <3>4. t.started /\ t.last = s[n + 1]
      BY <2>4 DEF x
    <3> QED BY <3>1, <3>2, <3>3, <3>4, Zenon DEF Describes
  <2>13. ASSUME NEW k \in RctCutoff..(n + 1) PROVE \E j \in (k - RctCutoff + 1)..k : s[j] # s[k]
    <3>1. CASE k = n + 1
      <4>1. CASE x = s[n]
        <5>1. n - h.repeat \in (k - RctCutoff + 1)..k /\ n > h.repeat
          BY <1>1, <1>3, <2>3, <3>1, <4>1
        <5>2. s[n - h.repeat] # s[k]
          BY <2>1, <3>1, <4>1, <5>1 DEF x
        <5> QED BY <5>1, <5>2
      <4>2. CASE x # s[n]
        <5>1. n \in (k - RctCutoff + 1)..k
          BY <1>1, <3>1
        <5> QED BY <3>1, <4>2, <5>1 DEF x
      <4> QED BY <4>1, <4>2
    <3>2. CASE k # n + 1
      <4>1. k \in RctCutoff..n
        BY <1>1, <3>2
      <4> QED BY <4>1 DEF Healthy
    <3> QED BY <3>1, <3>2
  <2>14. ASSUME NEW v \in 1..(n + 1), v = 1 \/ v % AptWindow = 0
         PROVE  Cardinality(Alike(s, v, WindowEnd(v, n + 1))) < AptCutoff
    <3>1. CASE v + AptWindow - 1 <= n
      <4>1. v \in 1..n /\ WindowEnd(v, n + 1) = WindowEnd(v, n)
        BY <1>1, <3>1 DEF WindowEnd
      <4> QED BY <2>14, <4>1 DEF Healthy
    <3>2. CASE v + AptWindow - 1 > n
      <4>1. WindowEnd(v, n + 1) = n + 1
        BY <1>1, <3>2 DEF WindowEnd
      <4>2. CASE v = n + 1
        BY <1>1, <1>4, <4>1, <4>2
      <4>3. CASE v # n + 1
        <5>1. v = w
          <6>1. CASE n < AptWindow
            <7>1. v < AptWindow + 0 /\ 0 % AptWindow = 0 /\ v # 0 /\ 0 < v + AptWindow
              BY <1>1, <4>3, <6>1
            <7>2. v % AptWindow # 0
              BY <1>1, <7>1, SameMultiple
            <7> QED BY <2>5, <2>14, <6>1, <7>2
          <6>2. CASE ~ (n < AptWindow)
            <7>1. v % AptWindow = 0 /\ w % AptWindow = 0
              BY <1>1, <2>6, <2>14, <3>2, <6>2
            <7>2. v < w + AptWindow /\ w < v + AptWindow /\ v \in Nat /\ w \in Nat
              BY <1>1, <1>3, <2>2, <2>5, <3>2, <4>3, <6>2
            <7>3. AptWindow \in Nat \ {0}
              BY <1>1
            <7> QED BY <7>1, <7>2, <7>3, SameMultiple, Zenon
          <6> QED BY <6>1, <6>2
        <5>2. WindowEnd(w, n) = n
          BY <1>1, <2>5, <3>2, <5>1 DEF WindowEnd
        <5>3. Cardinality(Alike(s, w, n)) < AptCutoff
          BY <2>5, <2>6, <5>2 DEF Healthy
        <5> QED BY <1>1, <2>1, <2>3, <2>7, <4>1, <5>1, <5>3
      <4> QED BY <4>2, <4>3
    <3> QED BY <1>1, <3>1, <3>2
  <2>15. Healthy(s, n + 1)
    BY <2>13, <2>14 DEF Healthy
  <2> QED BY <2>12, <2>15 DEF t, x
<1> QED BY <1>5, <1>6

\* what the tests say of n samples, they say of any that begin with these
LEMMA SamePrefix ==
  ASSUME NEW h \in Healths, NEW s, NEW t, NEW n \in Nat, \A k \in 1..n : s[k] = t[k],
         Describes(h, s, n), Healthy(s, n)
  PROVE  Describes(h, t, n) /\ Healthy(t, n)
<1>1. RctCutoff \in Nat /\ RctCutoff > 1 /\ AptWindow \in Nat /\ AptWindow > 1
  BY CutoffsAssumption
<1>2. ASSUME NEW w \in 1..n, NEW m \in 0..n PROVE Alike(t, w, m) = Alike(s, w, m)
  <2>1. \A j \in w..m : j \in 1..n
    OBVIOUS
  <2> QED BY <2>1 DEF Alike
<1>3. Describes(h, t, n)
  <2>1. CASE n = 0
    BY <2>1, Zenon DEF Describes
  <2>2. CASE n # 0
    <3>1. h.started /\ h.last = s[n] /\ RunIs(h, s, n) /\ WindowIs(h, s, n)
      BY <2>2, Zenon DEF Describes
    <3>2. n \in 1..n /\ n \in 0..n
      BY <2>2
    <3>3. RunIs(h, t, n)
      <4>1. h.repeat \in 1..n /\ h.repeat \in Nat
        BY <3>1 DEF RunIs, Healths
      <4> DEFINE r == h.repeat
      <4>2. \A j \in (n - r + 1)..n : j \in 1..n
        BY <4>1
      <4>3. n > r => n - r \in 1..n
        BY <4>1
      <4> QED BY <3>1, <3>2, <4>1, <4>2, <4>3 DEF RunIs
    <3>4. WindowStart(h, n) \in 1..n
      BY <1>1, <2>2, <3>1 DEF WindowIs, WindowStart, Healths
    <3>5. WindowIs(h, t, n)
      <4>1. Alike(t, WindowStart(h, n), n) = Alike(s, WindowStart(h, n), n)
        BY <1>2, <3>2, <3>4
      <4>2. t[WindowStart(h, n)] = s[WindowStart(h, n)]
        BY <3>4
      <4> QED BY <3>1, <4>1, <4>2 DEF WindowIs
    <3>6. h.last = t[n]
      BY <3>1, <3>2
    <3> QED BY <2>2, <3>1, <3>3, <3>5, <3>6, Zenon DEF Describes
  <2> QED BY <2>1, <2>2
<1>4. Healthy(t, n)
  <2>1. ASSUME NEW k \in RctCutoff..n PROVE \E j \in (k - RctCutoff + 1)..k : t[j] # t[k]
    <3>1. PICK j \in (k - RctCutoff + 1)..k : s[j] # s[k]
      BY DEF Healthy
    <3>2. j \in 1..n /\ k \in 1..n
      BY <1>1
    <3> QED BY <3>1, <3>2
  <2>2. ASSUME NEW w \in 1..n, w = 1 \/ w % AptWindow = 0
        PROVE  Cardinality(Alike(t, w, WindowEnd(w, n))) < AptCutoff
    <3>1. WindowEnd(w, n) \in 0..n
      BY <1>1 DEF WindowEnd
    <3>2. Alike(t, w, WindowEnd(w, n)) = Alike(s, w, WindowEnd(w, n))
      BY <1>2, <3>1
    <3> QED BY <2>2, <3>2 DEF Healthy
  <2> QED BY <2>1, <2>2 DEF Healthy
<1> QED BY <1>3, <1>4

\* a good block more
LEMMA TestBlock ==
  ASSUME NEW h \in Healths, NEW s \in Seq(Samples), NEW block \in Seq(Samples),
         Describes(h, s, Len(s)), Healthy(s, Len(s)), BlockOk(h, block)
  PROVE  /\ Describes(HealthAfter(h, block), s \o block, Len(s \o block))
         /\ Healthy(s \o block, Len(s \o block))
<1> DEFINE n == Len(s)
           m == Len(block)
           t == s \o block
           path == HealthPath(h, block)
<1>1. n \in Nat /\ m \in Nat /\ t \in Seq(Samples) /\ Len(t) = n + m
      /\ (\A k \in 1..n : t[k] = s[k]) /\ \A k \in 1..m : t[n + k] = block[k]
  OBVIOUS
<1>2. /\ path \in [0..m -> Healths] /\ path[0] = h
      /\ \A k \in 1..m : path[k] = RNG_Health_Next(path[k - 1], block[k])
  BY HealthPathDef
<1>3. \A k \in 1..m : RNG_Health_Ok(path[k - 1], block[k])
  BY DEF BlockOk
<1>4. HealthAfter(h, block) = path[m]
  BY DEF HealthAfter
<1>5. Describes(h, s, n) /\ Healthy(s, n)
  OBVIOUS
<1> HIDE DEF n, m, t, path
<1> DEFINE T == {k \in 0..m : Describes(path[k], t, n + k) /\ Healthy(t, n + k)}
<1>6. 0 \in T
  <2>1. \A k \in 1..n : s[k] = t[k]
    BY <1>1
  <2>2. Describes(h, t, n) /\ Healthy(t, n)
    BY <1>1, <1>5, <2>1, SamePrefix, Zenon
  <2>3. n + 0 = n /\ 0 \in 0..m
    BY <1>1
  <2> QED BY <1>2, <2>2, <2>3
<1>7. ASSUME NEW k \in 0..(m - 1), k \in T PROVE k + 1 \in T
  <2>1. /\ k \in 0..m /\ k + 1 \in 1..m /\ k + 1 \in 0..m /\ k + 1 - 1 = k /\ k \in Nat
        /\ n + (k + 1) = (n + k) + 1 /\ n + k \in Nat /\ n + k < Len(t)
    BY <1>1
  <2>2. t[(n + k) + 1] = block[k + 1]
    BY <1>1, <2>1
  <2>3. RNG_Health_Ok(path[k], block[k + 1]) /\ path[k + 1] = RNG_Health_Next(path[k], block[k + 1])
    BY <1>2, <1>3, <2>1
  <2>4. path[k] \in Healths /\ Describes(path[k], t, n + k) /\ Healthy(t, n + k)
    BY <1>2, <1>7, <2>1
  <2> DEFINE l == n + k
  <2>5. l \in Nat /\ l < Len(t) /\ Describes(path[k], t, l) /\ Healthy(t, l)
        /\ RNG_Health_Ok(path[k], t[l + 1])
    BY <2>1, <2>2, <2>3, <2>4
  <2> HIDE DEF l
  <2>6. Describes(RNG_Health_Next(path[k], t[l + 1]), t, l + 1) /\ Healthy(t, l + 1)
    BY <1>1, <2>4, <2>5, TestStep, Zenon
  <2>7. Describes(path[k + 1], t, n + (k + 1)) /\ Healthy(t, n + (k + 1))
    BY <2>1, <2>2, <2>3, <2>6 DEF l
  <2> QED BY <2>1, <2>7
<1>8. m \in T
  <2> HIDE DEF T
  <2>1. \A k \in 0..m : k \in T
    BY <1>1, <1>6, <1>7, UpTo
  <2> QED BY <1>1, <2>1
<1>9. Describes(path[m], t, Len(t)) /\ Healthy(t, Len(t))
  BY <1>1, <1>8
<1> QED BY <1>4, <1>9 DEF t

\* the state after a block is a state
LEMMA HealthAfterTypes ==
  ASSUME NEW h \in Healths, NEW block \in Seq(Samples)
  PROVE  HealthAfter(h, block) \in Healths
<1>1. Len(block) \in 0..Len(block)
  OBVIOUS
<1>2. HealthPath(h, block) \in [0..Len(block) -> Healths]
  BY HealthPathDef
<1> QED BY <1>1, <1>2 DEF HealthAfter

-----------------------------------------------------------------------------
(* The queues. *)

-----------------------------------------------------------------------------
(* The operations of the pool. *)

\* Entropy_Pool_Init empties both queues and restarts both tests
LEMMA InitPool ==
  /\ Entropy_Pool_Init \in Pools
  /\ \A c \in Channels : /\ Entropy_Pool_Init.fifo[c].bits = <<>> /\ Entropy_Pool_Init.fifo[c].head = 0
                         /\ Entropy_Pool_Init.health[c] = RNG_Health_Init
<1>1. RNG_Health_Init \in Healths
  BY DEF RNG_Health_Init, Healths
<1>2. EmptyFifo \in Fifos /\ EmptyFifo.bits = <<>> /\ EmptyFifo.head = 0
  BY DEF EmptyFifo, Fifos
<1> QED BY <1>1, <1>2 DEF Entropy_Pool_Init, Pools

\* the types of a pool's parts
LEMMA PoolFields ==
  ASSUME NEW p \in Pools, NEW c \in Channels
  PROVE  /\ p.fifo[c] \in Fifos /\ p.fifo[c].bits \in Seq(Nat) /\ p.fifo[c].head \in Nat
         /\ p.health[c] \in Healths
<1>1. p.fifo \in [Channels -> Fifos] /\ p.health \in [Channels -> Healths]
  BY DEF Pools
<1>2. p.fifo[c] \in Fifos /\ p.health[c] \in Healths
  BY <1>1
<1> QED BY <1>2 DEF Fifos

\* what is available when the head is inside the queue
LEMMA AvailableInside ==
  ASSUME NEW f \in Fifos, Len(f.bits) <= FifoCap, f.head <= Len(f.bits)
  PROVE  Fifo_Available(f) = Len(f.bits) - f.head
<1> DEFINE n == Len(f.bits)
           k == f.head
<1>1. n \in Nat /\ k \in Nat /\ n <= FifoCap /\ k <= n
  BY DEF Fifos
<1>2. FifoCap \in Nat /\ FifoCap < Counts /\ Counts \in Nat
  BY PoolAssumption, SMT DEF Counts
<1>3. Fifo_Available(f) = (n + Counts - k) % Counts
  BY DEF Fifo_Available
<1> HIDE DEF n, k
<1>4. (n + Counts - k) % Counts = n - k
  BY <1>1, <1>2
<1> QED BY <1>3, <1>4 DEF n, k

\* a block is a sequence of samples, with an even number of them
LEMMA BlockTypes ==
  ASSUME NEW block \in Blocks
  PROVE  block \in Seq(Samples) /\ Len(block) = BlockSamples /\ BlockSamples \in Nat /\ BlockSamples % 2 = 0
<1>1. BlockSamples \in Nat /\ BlockSamples % 2 = 0
  BY SamplingAssumption
<1> QED BY <1>1 DEF Blocks

\* the first n elements of a sequence
LEMMA Prefix ==
  ASSUME NEW S, NEW s \in Seq(S), NEW n \in Nat, n <= Len(s)
  PROVE  /\ SubSeq(s, 1, n) \in Seq(S) /\ Len(SubSeq(s, 1, n)) = n
         /\ \A k \in 1..n : SubSeq(s, 1, n)[k] = s[k]
OBVIOUS

\* the elements after the first h
LEMMA Suffix ==
  ASSUME NEW S, NEW s \in Seq(S), NEW h \in Nat, h <= Len(s)
  PROVE  /\ SubSeq(s, h + 1, Len(s)) \in Seq(S) /\ Len(SubSeq(s, h + 1, Len(s))) = Len(s) - h
         /\ \A k \in 1..(Len(s) - h) : SubSeq(s, h + 1, Len(s))[k] = s[h + k]
<1> DEFINE n == Len(s)
           r == SubSeq(s, h + 1, n)
<1>1. n \in Nat /\ h + 1 \in Int /\ n \in Int /\ h <= n
  OBVIOUS
<1>2. \A k \in (h + 1)..n : s[k] \in S
  OBVIOUS
<1> HIDE DEF n
<1>3. /\ r \in Seq(S) /\ Len(r) = (IF h + 1 <= n THEN n - (h + 1) + 1 ELSE 0)
      /\ \A k \in 1..(n - (h + 1) + 1) : r[k] = s[h + 1 + k - 1]
  BY <1>1, <1>2, SubSeqProperties
<1> HIDE DEF r
<1>4. Len(r) = n - h
  BY <1>1, <1>3
<1>5. ASSUME NEW k \in 1..(n - h) PROVE r[k] = s[h + k]
  <2>1. k \in 1..(n - (h + 1) + 1) /\ h + 1 + k - 1 = h + k
    BY <1>1
  <2>2. r[k] = s[h + 1 + k - 1]
    BY <1>3, <2>1
  <2> QED BY <2>1, <2>2
<1> QED BY <1>3, <1>4, <1>5 DEF n, r

\* a sequence and another after it
LEMMA Joined ==
  ASSUME NEW S, NEW r \in Seq(S), NEW p \in Seq(S)
  PROVE  /\ r \o p \in Seq(S) /\ Len(r \o p) = Len(r) + Len(p)
         /\ \A k \in 1..Len(r) : (r \o p)[k] = r[k]
         /\ \A k \in 1..Len(p) : (r \o p)[Len(r) + k] = p[k]
OBVIOUS

\* the queue after a block: what was not taken of the queue, and then pairs
\* of the block
LEMMA AbsorbQueue ==
  ASSUME NEW bits \in Seq(Nat), NEW h \in Nat, h <= Len(bits),
         NEW pairs \in Seq(Nat), NEW hi \in Nat, NEW last \in Nat,
         Within(bits, 1, hi), Within(pairs, hi + 1, last), hi <= last,
         NEW n \in Nat, n <= Len(SubSeq(bits, h + 1, Len(bits)) \o pairs)
  PROVE  LET q == SubSeq(SubSeq(bits, h + 1, Len(bits)) \o pairs, 1, n)
         IN  /\ q \in Seq(Nat) /\ Len(q) = n /\ Within(q, 1, last)
             /\ \A k \in 1..n : \/ \E m \in (h + 1)..Len(bits) : q[k] = bits[m]
                                \/ q[k] > hi
<1> DEFINE b == Len(bits)
           c == Len(pairs)
           a == b - h
           r == SubSeq(bits, h + 1, b)
           t == r \o pairs
           q == SubSeq(t, 1, n)
<1>1. r \in Seq(Nat) /\ Len(r) = a /\ \A k \in 1..a : r[k] = bits[h + k]
  BY Suffix, Zenon
<1> HIDE DEF r
<1>2. t \in Seq(Nat) /\ Len(t) = Len(r) + c
      /\ (\A k \in 1..Len(r) : t[k] = r[k]) /\ \A k \in 1..c : t[Len(r) + k] = pairs[k]
  <2>1. t \in Seq(Nat) /\ Len(t) = Len(r) + Len(pairs)
    BY <1>1, Joined, Zenon
  <2>2. \A k \in 1..Len(r) : t[k] = r[k]
    BY <1>1, Joined, ZenonT(40)
  <2>3. \A k \in 1..Len(pairs) : t[Len(r) + k] = pairs[k]
    <3>1. r \in Seq(Nat) /\ pairs \in Seq(Nat)
      BY <1>1
    <3> HIDE <1>1
    <3> QED BY <3>1, Joined
  <2> QED BY <2>1, <2>2, <2>3
<1>3. n <= Len(t)
  BY DEF r
<1> HIDE DEF t
<1>4. q \in Seq(Nat) /\ Len(q) = n /\ \A k \in 1..n : q[k] = t[k]
  BY <1>2, <1>3, Prefix, Zenon
<1> HIDE DEF q
<1>5. /\ \A k \in 1..b : bits[k] \in 1..hi /\ \A j \in 1..(k - 1) : bits[j] < bits[k]
      /\ \A k \in 1..c : pairs[k] \in (hi + 1)..last /\ \A j \in 1..(k - 1) : pairs[j] < pairs[k]
  BY Zenon DEF Within, Rising
<1>6. b \in Nat /\ c \in Nat /\ h <= b
  OBVIOUS
<1> HIDE DEF b, c
<1>7. a \in Nat /\ n <= a + c
  <2>1. Len(t) = a + c
    BY <1>1, <1>2
  <2> QED BY <1>3, <1>6, <2>1
<1>8. \A k \in 1..a : h + k \in (h + 1)..b /\ h + k \in 1..b
  BY <1>6
<1> HIDE DEF a
<1> DEFINE Old(k) == k \in 1..a /\ q[k] = bits[h + k]
           New(k) == k - a \in 1..c /\ q[k] = pairs[k - a]
<1>9. ASSUME NEW k \in 1..n PROVE Old(k) \/ New(k)
  <2>1. CASE k <= a
    <3>1. k \in 1..a
      BY <1>7, <2>1
    <3>2. q[k] = t[k] /\ t[k] = r[k] /\ r[k] = bits[h + k]
      BY <1>1, <1>2, <1>4, <3>1
    <3> QED BY <3>1, <3>2
  <2>2. CASE k > a
    <3>1. k - a \in 1..c /\ a + (k - a) = k
      BY <1>6, <1>7, <2>2
    <3>2. q[k] = t[k]
      BY <1>4
    <3>3. t[a + (k - a)] = pairs[k - a]
      BY <1>1, <1>2, <3>1
    <3> QED BY <3>1, <3>2, <3>3
  <2> QED BY <1>7, <2>1, <2>2
<1>10. ASSUME NEW k \in 1..n
       PROVE  q[k] \in 1..last /\ ((\E m \in (h + 1)..b : q[k] = bits[m]) \/ q[k] > hi)
  <2>1. CASE Old(k)
    <3>1. h + k \in (h + 1)..b /\ bits[h + k] \in 1..hi
      BY <1>5, <1>8, <2>1
    <3> QED BY SMTT(30), <2>1, <3>1
  <2>2. CASE New(k)
    <3>1. pairs[k - a] \in (hi + 1)..last
      BY <1>5, <2>2
    <3> QED BY SMTT(30), <2>2, <3>1
  <2> HIDE DEF Old, New
  <2> QED BY <1>9, <2>1, <2>2
<1>11. ASSUME NEW k \in 1..n, NEW j \in 1..(k - 1) PROVE q[j] < q[k]
  <2>1. j \in 1..n /\ j < k /\ j \in Nat /\ k \in Nat
    OBVIOUS
  <2>2. CASE Old(k)
    <3>1. j \in 1..a /\ h + j \in 1..(h + k - 1) /\ h + k \in 1..b
      <4>1. k \in 1..a
        BY <2>2
      <4>2. h + k \in 1..b
        BY <1>8, <4>1
      <4>3. j \in 1..a
        BY <1>7, <2>1, <4>1
      <4>4. h + j \in 1..(h + k - 1)
        BY <2>1
      <4> QED BY <4>2, <4>3, <4>4
    <3>2. q[j] = bits[h + j]
      <4>1. ~ (j - a \in 1..c)
        BY <1>7, <3>1
      <4> QED BY <1>9, <2>1, <4>1
    <3>3. bits[h + j] < bits[h + k]
      BY <1>5, <3>1
    <3> QED BY <2>2, <3>2, <3>3
  <2>3. CASE New(k)
    <3>1. CASE Old(j)
      <4>1. bits[h + j] \in 1..hi /\ pairs[k - a] \in (hi + 1)..last
        BY <1>5, <1>8, <2>3, <3>1
      <4>2. bits[h + j] < pairs[k - a]
        BY SMTT(30), <4>1
      <4> QED BY <2>3, <3>1, <4>2
    <3>2. CASE New(j)
      <4>1. j - a \in 1..(k - a - 1)
        BY <1>7, <2>1, <3>2
      <4>2. pairs[j - a] < pairs[k - a]
        BY <1>5, <2>3, <4>1
      <4> QED BY <2>3, <3>2, <4>2
    <3> HIDE DEF Old, New
    <3> QED BY <1>9, <2>1, <3>1, <3>2
  <2> HIDE DEF Old, New
  <2> QED BY <1>9, <2>2, <2>3
<1>12. Within(q, 1, last)
  BY <1>4, <1>10, <1>11 DEF Within, Rising
<1> QED BY <1>4, <1>10, <1>12 DEF q, t, r, b

\* a queue that a block was absorbed into is a queue
LEMMA AbsorbedTypes ==
  ASSUME NEW f \in Fifos, NEW block \in Seq(Samples), NEW first \in Nat \ {0}, f.head <= Len(f.bits)
  PROVE  LET q == Absorbed(f, block, first)
         IN  q \in Fifos /\ q.head = 0 /\ Len(q.bits) <= FifoCap
<1> DEFINE pairs == DebiasedPairs(block, first)
           all   == SubSeq(f.bits, f.head + 1, Len(f.bits)) \o pairs
           kept  == IF Len(all) < FifoCap THEN Len(all) ELSE FifoCap
<1>1. f.bits \in Seq(Nat) /\ f.head \in Nat
  BY DEF Fifos
<1>2. pairs \in Seq(Nat)
  BY PairsWithin
<1>3. Absorbed(f, block, first) = [bits |-> SubSeq(all, 1, kept), head |-> 0]
  BY DEF Absorbed, Fifo_Compact
<1> HIDE DEF pairs
<1>4. all \in Seq(Nat)
  <2>1. SubSeq(f.bits, f.head + 1, Len(f.bits)) \in Seq(Nat)
    BY <1>1, Suffix, Zenon
  <2> QED BY <1>2, <2>1, Joined, Zenon
<1> HIDE DEF all
<1>5. kept \in Nat /\ kept <= Len(all) /\ kept <= FifoCap
  BY <1>4, PoolAssumption
<1> HIDE DEF kept
<1>6. SubSeq(all, 1, kept) \in Seq(Nat) /\ Len(SubSeq(all, 1, kept)) = kept
  BY <1>4, <1>5, Prefix, Zenon
<1> QED BY <1>3, <1>5, <1>6 DEF Fifos

\* and holds, in order, pairs that it held and pairs of the block
LEMMA AbsorbedQueue ==
  ASSUME NEW f \in Fifos, NEW block \in Seq(Samples), NEW hi \in Nat,
         f.head <= Len(f.bits), Within(f.bits, 1, hi)
  PROVE  LET q == Absorbed(f, block, hi + 1)
         IN  /\ Within(q.bits, 1, hi + (Len(block) \div 2))
             /\ \A k \in 1..Len(q.bits) : \/ \E m \in (f.head + 1)..Len(f.bits) : q.bits[k] = f.bits[m]
                                          \/ q.bits[k] > hi
<1> DEFINE pairs == DebiasedPairs(block, hi + 1)
           bits  == f.bits
           h     == f.head
           all   == SubSeq(bits, h + 1, Len(bits)) \o pairs
           kept  == IF Len(all) < FifoCap THEN Len(all) ELSE FifoCap
           last  == hi + (Len(block) \div 2)
<1>1. bits \in Seq(Nat) /\ h \in Nat /\ h <= Len(bits) /\ Within(bits, 1, hi)
  BY DEF Fifos
<1>2. pairs \in Seq(Nat) /\ Within(pairs, hi + 1, last) /\ last \in Nat /\ hi <= last
  <2>1. Len(block) \div 2 \in Nat
    OBVIOUS
  <2>2. hi + 1 \in Nat \ {0} /\ (hi + 1) + (Len(block) \div 2) - 1 = last
    BY <2>1
  <2>3. pairs \in Seq(Nat) /\ Within(pairs, hi + 1, (hi + 1) + (Len(block) \div 2) - 1)
    BY <2>2, PairsWithin
  <2> QED BY <2>1, <2>2, <2>3
<1>3. Absorbed(f, block, hi + 1) = [bits |-> SubSeq(all, 1, kept), head |-> 0]
  BY DEF Absorbed, Fifo_Compact
<1> HIDE DEF pairs, last
<1>4. all \in Seq(Nat)
  <2>1. SubSeq(bits, h + 1, Len(bits)) \in Seq(Nat)
    BY <1>1, Suffix, Zenon
  <2> QED BY <1>2, <2>1, Joined, Zenon
<1>5. kept \in Nat /\ kept <= Len(all)
  <2> HIDE DEF all
  <2> QED BY <1>4, PoolAssumption
<1> HIDE DEF kept, bits, h
<1>6. LET q == SubSeq(all, 1, kept)
      IN  /\ q \in Seq(Nat) /\ Len(q) = kept /\ Within(q, 1, last)
          /\ \A k \in 1..kept : \/ \E m \in (h + 1)..Len(bits) : q[k] = bits[m]
                                \/ q[k] > hi
  BY <1>1, <1>2, <1>5, AbsorbQueue, Zenon
<1> HIDE DEF all
<1> DEFINE r == SubSeq(all, 1, kept)
           q == Absorbed(f, block, hi + 1)
<1>7. q.bits = r
  <2> HIDE DEF r
  <2>1. q = [bits |-> r, head |-> 0]
    BY <1>3 DEF r
  <2> QED BY <2>1
<1>8. /\ Len(r) = kept /\ Within(r, 1, last)
      /\ \A k \in 1..kept : \/ \E m \in (h + 1)..Len(bits) : r[k] = bits[m]
                            \/ r[k] > hi
  BY <1>6, Zenon
<1> HIDE DEF r, q
<1>9. /\ Within(q.bits, 1, last)
      /\ \A k \in 1..Len(q.bits) : \/ \E m \in (h + 1)..Len(bits) : q.bits[k] = bits[m]
                                   \/ q.bits[k] > hi
  BY <1>7, <1>8, Zenon
<1> QED BY <1>9, Zenon DEF last, bits, h, q

\* a pool with another queue for one channel
LEMMA QueueChanged ==
  ASSUME NEW p \in Pools, NEW c \in Channels, NEW f \in Fifos
  PROVE  LET q == [p EXCEPT !.fifo[c] = f]
         IN  /\ q \in Pools /\ q.health = p.health /\ q.fifo[c] = f
             /\ \A d \in Channels \ {c} : q.fifo[d] = p.fifo[d]
<1> DEFINE q == [p EXCEPT !.fifo[c] = f]
<1>1. p.fifo \in [Channels -> Fifos] /\ p.health \in [Channels -> Healths]
  BY DEF Pools
<1>2. q = [fifo |-> [p.fifo EXCEPT ![c] = f], health |-> p.health]
  BY DEF Pools
<1> HIDE DEF q
<1>3. q \in Pools
  BY <1>1, <1>2 DEF Pools
<1> QED BY <1>1, <1>2, <1>3 DEF q

\* and one with the other state of a channel's tests
LEMMA TestsChanged ==
  ASSUME NEW p \in Pools, NEW c \in Channels, NEW h \in Healths
  PROVE  LET q == [p EXCEPT !.health[c] = h]
         IN  /\ q \in Pools /\ q.fifo = p.fifo /\ q.health[c] = h
             /\ \A d \in Channels \ {c} : q.health[d] = p.health[d]
<1> DEFINE q == [p EXCEPT !.health[c] = h]
<1>1. p.fifo \in [Channels -> Fifos] /\ p.health \in [Channels -> Healths]
  BY DEF Pools
<1>2. q = [fifo |-> p.fifo, health |-> [p.health EXCEPT ![c] = h]]
  BY DEF Pools
<1> HIDE DEF q
<1>3. q \in Pools
  BY <1>1, <1>2 DEF Pools
<1> QED BY <1>1, <1>2, <1>3 DEF q

-----------------------------------------------------------------------------
(* The invariant holds at first, and every step keeps its parts. *)

-----------------------------------------------------------------------------
(* The steps. *)

\* what the constants are
LEMMA Constants ==
  /\ BlockSamples \in Nat /\ BlockSamples % 2 = 0 /\ MaxRounds \in Nat /\ Timeout \in Nat /\ MaxPanics \in Nat
  /\ Charsets \subseteq 1..Span[MaxDrawBits] /\ Lengths \subseteq Nat \ {0}
  /\ MaxDrawBits \in Nat \ {0} /\ FifoCap \in Nat
<1>1. MaxDrawBits \in Nat \ {0} /\ FifoCap \in Nat
  BY PoolAssumption
<1> QED BY <1>1, SamplingAssumption

\* a draw takes its bits from the two channels
LEMMA Turns == \A k : BitChannel("light", k) \in Channels
BY DEF BitChannel, Other, Channels

\* no noise
LEMMA EmptyIs == Empty \in [Channels -> Seq(Nat)] /\ Empty \in [Channels -> Seq(Samples)]
                 /\ \A c \in Channels : Empty[c] = <<>> /\ Len(Empty[c]) = 0
BY DEF Empty

\* the invariant of the sampling holds at first
LEMMA InitIInv == Init => IInv
<1> SUFFICES ASSUME Init PROVE IInv
  OBVIOUS
<1>1. MainTypes /\ AdcTypes
  <2>1. MaxRounds \in Nat /\ Timeout \in Nat /\ MaxPanics \in Nat
    BY Constants
  <2>2. wiped \in BOOLEAN /\ busy \in BOOLEAN /\ ready \in BOOLEAN
    BY Zenon DEF Init
  <2>3. buf \in Buffers /\ chan \in Channels
    BY DEF Init, Buffers, Channels
  <2>4. chars \in Nat /\ rounds \in 0..MaxRounds /\ age \in 0..(Timeout + 1) /\ panics \in 0..MaxPanics
    BY <2>1 DEF Init
  <2> QED BY <2>2, <2>3, <2>4 DEF Init, MainTypes, AdcTypes
<1>2. PoolTypes
  BY InitPool, Constants DEF Init, PoolTypes
<1>3. TextTypes /\ DrawTypes
  <2>1. MaxDrawBits \in 0..MaxDrawBits
    BY Constants
  <2>2. Span[MaxDrawBits] \in Nat \ {0}
    BY <2>1, SpanDef
  <2> QED BY <2>2, Constants DEF Init, TextTypes, DrawTypes
<1>4. HistTypes
  BY EmptyIs DEF Init, HistTypes
<1>5. Phase /\ Converter /\ Drawing /\ Compaction
  BY DEF Init, Phase, Converter, Drawing, Compaction, Compacting, Waiting
<1>6. \A c \in Channels : pool.fifo[c].bits = <<>> /\ Len(pool.fifo[c].bits) = 0 /\ pool.fifo[c].head = 0
  BY InitPool DEF Init
<1>7. Queues
  BY <1>6 DEF Init, Queues
<1>8. Gathered
  BY <1>6, EmptyIs DEF Init, Gathered, Rising
<1>9. Spent
  BY EmptyIs DEF Init, Spent, Rising
<1>10. Tested
  <2>1. \A c \in Channels : pool.health[c] = RNG_Health_Init /\ Len(noise[c]) = 0
    BY InitPool, EmptyIs DEF Init
  <2>2. RctCutoff \in Nat /\ RctCutoff > 0
    BY CutoffsAssumption
  <2>3. \A c \in Channels : Describes(pool.health[c], noise[c], Len(noise[c]))
    BY <2>1, Zenon DEF Describes
  <2>4. \A c \in Channels : Healthy(noise[c], Len(noise[c]))
    BY <2>1, <2>2 DEF Healthy
  <2> QED BY <2>3, <2>4 DEF Tested
<1> QED BY <1>1, <1>2, <1>3, <1>4, <1>5, <1>7, <1>8, <1>9, <1>10 DEF IInv, TypeOK

\* what a block does to the tests' state, and to the samples absorbed
TestsBlock(c, block) ==
  /\ noise' = [noise EXCEPT ![c] = @ \o block]
  /\ pool' = [pool EXCEPT !.health[c] = HealthAfter(@, block)]
  /\ pc' # "fault" => BlockOk(pool.health[c], block)

\* Absorb with its channel and its block
LEMMA AbsorbIs ==
  ASSUME IInv, Absorb
  PROVE  /\ pc = "absorb" /\ Waited \in Channels /\ Waited' = Waited
         /\ \E block \in Blocks : TestsBlock(Waited, block)
<1>1. PICK block \in Blocks :
        LET c == Waited
        IN  /\ noise' = [noise EXCEPT ![c] = @ \o block]
            /\ pool' = [pool EXCEPT !.health[c] = HealthAfter(@, block)]
            /\ \/ ~BlockOk(pool.health[c], block) /\ pc' = "fault" /\ UNCHANGED <<head, count>>
               \/ /\ BlockOk(pool.health[c], block)
                  /\ pc' = "compactHead" /\ head' = pool.fifo[c].head /\ UNCHANGED count
               \/ /\ BlockOk(pool.health[c], block) /\ pool.fifo[c].head > 0
                  /\ pc' = "compactCount" /\ count' = Len(pool.fifo[c].bits) /\ UNCHANGED head
  BY DEF Absorb
<1>2. pc = "absorb" /\ sub' = sub
  BY DEF Absorb, genVars
<1>3. Waited \in Channels /\ Waited' = Waited
  BY <1>2 DEF Waited, Channels
<1>4. TestsBlock(Waited, block)
  BY <1>1, Zenon DEF TestsBlock
<1> QED BY <1>2, <1>3, <1>4

\* what it does to the control, and what Fifo_Compact loads first
LEMMA AbsorbControl ==
  ASSUME Absorb
  PROVE  /\ pc = "absorb" /\ UNCHANGED <<genVars, chars, rounds, age, value, i, adcVars, used, panics>>
         /\ \/ pc' = "fault" /\ UNCHANGED <<head, count>>
            \/ pc' = "compactHead" /\ head' = pool.fifo[Waited].head /\ UNCHANGED count
            \/ pc' = "compactCount" /\ count' = Len(pool.fifo[Waited].bits) /\ UNCHANGED head
BY DEF Absorb

\* what Debias does to the control
LEMMA DebiasControl ==
  ASSUME Debias
  PROVE  /\ pc \in Compacting /\ head' = 0 /\ count' = 0
         /\ UNCHANGED <<wiped, textVars, chars, rounds, value, i, histVars, panics>>
         /\ \/ pc' = "fault" /\ UNCHANGED <<sub, age, adcVars>>
            \/ ADC_Drv_StartBlock("gen", "light") /\ age' = 0 /\ sub' = "waitLight" /\ pc' = "loop"
            \/ age' = 0 /\ sub' = "startRound" /\ pc' = "loop" /\ UNCHANGED adcVars
BY DEF Debias, Compacting

\* every step keeps the types of the main thread's variables
LEMMA NextMainTypes ==
  ASSUME IInv, [Next]_vars
  PROVE  MainTypes'
<1>0. MaxRounds \in Nat /\ Timeout \in Nat /\ MaxPanics \in Nat
  BY Constants
<1> USE <1>0 DEF IInv, TypeOK, MainTypes, Phase, Waiting, genVars
<1>1. CASE Enter
  <2>1. wiped' \in BOOLEAN
    BY <1>1, Zenon DEF Enter
  <2> QED BY <1>1, <2>1 DEF Enter
<1>2. CASE HandleLength
  BY <1>2 DEF HandleLength
<1>3. CASE SrcBegin
  BY <1>3 DEF SrcBegin, SrcFrame
<1>4. CASE Leave
  BY <1>4 DEF Leave
<1>5. CASE Pass
  BY <1>5 DEF Pass
<1>6. CASE ProduceChars
  BY <1>6 DEF ProduceChars
<1>7. CASE LoadBit
  BY <1>7 DEF LoadBit
<1>8. CASE StoreHead
  BY <1>8 DEF StoreHead
<1>9. CASE PasswordDone
  BY <1>9 DEF PasswordDone
<1>10. CASE StartRound
  BY <1>10 DEF StartRound
<1>11. CASE WaitBlock
  BY <1>11 DEF WaitBlock
<1>12. CASE Late
  BY <1>12 DEF Late
<1>13. CASE Absorb
  BY <1>13, AbsorbControl DEF Compacting
<1>14. CASE SrcRound
  BY <1>14 DEF SrcRound, SrcFrame
<1>15. CASE SrcWait
  BY <1>15 DEF SrcWait, SrcFrame
<1>16. CASE BlockDone
  BY <1>16 DEF BlockDone
<1>17. CASE Tick
  BY <1>17 DEF Tick
<1>18. CASE Panic
  BY <1>18 DEF Panic
<1>19. CASE UNCHANGED vars
  BY <1>19 DEF vars
<1>20. CASE Overrun
  BY <1>20 DEF Overrun
<1>21. CASE Debias
  BY <1>21, DebiasControl DEF Compacting
<1>22. CASE Reset
  <2>1. wiped' \in BOOLEAN
    BY <1>22, Zenon DEF Reset
  <2> QED BY <1>22, <2>1 DEF Reset
<1> QED BY <1>1, <1>2, <1>3, <1>4, <1>5, <1>6, <1>7, <1>8, <1>9, <1>10, <1>11, <1>12, <1>13, <1>14,
           <1>15, <1>16, <1>17, <1>18, <1>19, <1>20, <1>21, <1>22 DEF Next, User, Main

\* every step keeps the main thread in phase with the mode
LEMMA NextPhase ==
  ASSUME IInv, [Next]_vars
  PROVE  Phase'
<1> USE DEF IInv, TypeOK, MainTypes, Phase, Compacting, Waiting, genVars
<1>1. CASE Enter
  BY <1>1 DEF Enter
<1>2. CASE HandleLength
  BY <1>2 DEF HandleLength
<1>3. CASE SrcBegin
  BY <1>3 DEF SrcBegin, SrcFrame
<1>4. CASE Leave
  BY <1>4 DEF Leave
<1>5. CASE Pass
  BY <1>5 DEF Pass
<1>6. CASE ProduceChars
  BY <1>6 DEF ProduceChars
<1>7. CASE LoadBit
  BY <1>7 DEF LoadBit
<1>8. CASE StoreHead
  BY <1>8 DEF StoreHead
<1>9. CASE PasswordDone
  BY <1>9 DEF PasswordDone, NothingToProduce
<1>10. CASE StartRound
  BY <1>10 DEF StartRound, NothingToProduce
<1>11. CASE WaitBlock
  BY <1>11 DEF WaitBlock
<1>12. CASE Late
  BY <1>12 DEF Late
<1>13. CASE Absorb
  BY <1>13, AbsorbControl DEF Compacting
<1>14. CASE SrcRound
  BY <1>14 DEF SrcRound, SrcFrame
<1>15. CASE SrcWait
  BY <1>15 DEF SrcWait, SrcFrame
<1>16. CASE BlockDone
  BY <1>16 DEF BlockDone
<1>17. CASE Tick
  BY <1>17 DEF Tick
<1>18. CASE Panic
  BY <1>18 DEF Panic
<1>19. CASE UNCHANGED vars
  BY <1>19 DEF vars
<1>20. CASE Overrun
  BY <1>20 DEF Overrun
<1>21. CASE Debias
  BY <1>21, DebiasControl DEF Compacting
<1>22. CASE Reset
  BY <1>22 DEF Reset
<1> QED BY <1>1, <1>2, <1>3, <1>4, <1>5, <1>6, <1>7, <1>8, <1>9, <1>10, <1>11, <1>12, <1>13, <1>14,
           <1>15, <1>16, <1>17, <1>18, <1>19, <1>20, <1>21, <1>22 DEF Next, User, Main

\* every step keeps the converter on the block that is waited for: BlockDone
\* changes neither buffer nor channel, and a start is refused while it is busy
LEMMA NextConverter ==
  ASSUME IInv, [Next]_vars
  PROVE  Converter' /\ AdcTypes'
<1> USE DEF IInv, TypeOK, MainTypes, AdcTypes, Phase, Converter, Compacting, Waited, Waiting, genVars, adcVars,
            ADC_Drv_StartBlock, Buffers, Channels
<1>1. CASE Enter
  BY <1>1 DEF Enter
<1>2. CASE HandleLength
  BY <1>2 DEF HandleLength
<1>3. CASE SrcBegin
  BY <1>3 DEF SrcBegin, SrcFrame
<1>4. CASE Leave
  BY <1>4 DEF Leave
<1>5. CASE Pass
  BY <1>5 DEF Pass
<1>6. CASE ProduceChars
  BY <1>6 DEF ProduceChars
<1>7. CASE LoadBit
  BY <1>7 DEF LoadBit
<1>8. CASE StoreHead
  BY <1>8 DEF StoreHead
<1>9. CASE PasswordDone
  BY <1>9 DEF PasswordDone, NothingToProduce
<1>10. CASE StartRound
  <2>1. CASE ADC_Drv_StartBlock("gen", "temp") /\ sub' = "waitTemp" /\ pc' = "loop"
    BY <1>10, <2>1
  <2>2. CASE pc' \in {"fault", "late"} /\ UNCHANGED <<sub, rounds, age, adcVars>>
    BY <1>10, <2>2 DEF StartRound, NothingToProduce
  <2> QED BY <1>10, <2>1, <2>2 DEF StartRound
<1>11. CASE WaitBlock
  BY <1>11 DEF WaitBlock
<1>12. CASE Late
  BY <1>12 DEF Late
<1>13. CASE Absorb
  BY <1>13, AbsorbControl
<1>14. CASE SrcRound
  <2>1. UNCHANGED sub /\ pc = "srcRound"
    BY <1>14 DEF SrcRound, SrcFrame
  <2>2. CASE pc' = "loop" /\ UNCHANGED adcVars
    BY <2>1, <2>2
  <2>3. CASE ADC_Drv_StartBlock("src", "temp") /\ pc' = "srcTemp"
    BY <2>1, <2>3
  <2> QED BY <1>14, <2>2, <2>3 DEF SrcRound
<1>15. CASE SrcWait
  <2>1. UNCHANGED sub /\ pc \in {"srcTemp", "srcLight"}
    BY <1>15 DEF SrcWait, SrcFrame
  <2>2. CASE pc' \in {"loop", "srcRound"} /\ UNCHANGED adcVars
    BY <2>1, <2>2
  <2>3. CASE ADC_Drv_StartBlock("src", "light") /\ pc' = "srcLight"
    BY <2>1, <2>3
  <2> QED BY <1>15, <2>2, <2>3 DEF SrcWait
<1>16. CASE BlockDone
  BY <1>16 DEF BlockDone
<1>17. CASE Tick
  BY <1>17 DEF Tick
<1>18. CASE Panic
  BY <1>18 DEF Panic
<1>19. CASE UNCHANGED vars
  BY <1>19 DEF vars
<1>20. CASE Overrun
  BY <1>20 DEF Overrun
<1>21. CASE Debias
  <2>1. pc \in Compacting /\ ready /\ ~busy
    BY <1>21, DebiasControl
  <2>2. CASE pc' = "fault" /\ UNCHANGED <<sub, age, adcVars>>
    BY <2>1, <2>2
  <2>3. CASE ADC_Drv_StartBlock("gen", "light") /\ sub' = "waitLight" /\ pc' = "loop"
    BY <2>1, <2>3
  <2>4. CASE sub' = "startRound" /\ pc' = "loop" /\ UNCHANGED adcVars
    BY <2>1, <2>4
  <2> HIDE DEF IInv, TypeOK, MainTypes, AdcTypes, Phase, Converter, Waited, adcVars, ADC_Drv_StartBlock
  <2> QED BY <1>21, <2>2, <2>3, <2>4, DebiasControl, Zenon
<1>22. CASE Reset
  <2>1. busy' \in BOOLEAN /\ ready' \in BOOLEAN
    BY <1>22, Zenon DEF Reset
  <2> QED BY <1>22, <2>1 DEF Reset
<1> QED BY <1>1, <1>2, <1>3, <1>4, <1>5, <1>6, <1>7, <1>8, <1>9, <1>10, <1>11, <1>12, <1>13, <1>14,
           <1>15, <1>16, <1>17, <1>18, <1>19, <1>20, <1>21, <1>22 DEF Next, User, Main

\* every step keeps the charset, its draw and its threshold in range
LEMMA NextTextTypes ==
  ASSUME IInv, [Next]_vars
  PROVE  TextTypes'
<1>1. CASE HandleLength
  <2>1. PICK range \in Charsets : charset' = range
    BY <1>1 DEF HandleLength, BuildCharset
  <2>2. range \in 1..Span[MaxDrawBits]
    BY Constants
  <2> DEFINE b == Entropy_Pool_DrawBits(range)
  <2>3. b \in 1..MaxDrawBits /\ range <= Span[b]
    BY <2>2, BestBits
  <2>4. drawBits' = b /\ threshold' = AcceptBelow(range, b) /\ length' \in Lengths
    BY <1>1, <2>1 DEF HandleLength, BuildCharset
  <2> HIDE DEF b
  <2>5. /\ MaxDrawBits \in Nat /\ b \in 0..MaxDrawBits /\ MaxDrawBits \in 0..MaxDrawBits /\ b <= MaxDrawBits
    BY <2>3, Constants
  <2>6. Span[b] \in Nat \ {0} /\ Span[MaxDrawBits] \in Nat \ {0}
    BY <2>5, SpanDef
  <2>7. range \in Nat \ {0}
    BY <2>2, <2>6
  <2>8. threshold' \in 1..Span[b]
    BY <2>3, <2>4, <2>5, <2>7, Accepted
  <2>9. Span[b] <= Span[MaxDrawBits]
    BY <2>5, SpanRises
  <2>10. threshold' \in 0..Span[MaxDrawBits]
    BY <2>6, <2>8, <2>9
  <2> QED BY <2>1, <2>3, <2>4, <2>10 DEF TextTypes
<1>2. CASE UNCHANGED textVars
  BY <1>2 DEF IInv, TypeOK, TextTypes, textVars
<1>3. CASE Reset
  <2>1. MaxDrawBits \in 1..MaxDrawBits /\ MaxDrawBits \in 0..MaxDrawBits
    BY Constants
  <2>2. Span[MaxDrawBits] \in Nat
    BY <2>1, SpanDef
  <2> QED BY <1>3, <2>1, <2>2 DEF Reset, TextTypes
<1> QED BY <1>1, <1>2, <1>3 DEF Next, User, Main, vars, genVars, Enter, SrcBegin, SrcFrame, Leave, Pass, ProduceChars,
           LoadBit, StoreHead, PasswordDone, StartRound, WaitBlock, Late, Absorb, Overrun, Debias, SrcRound, SrcWait, BlockDone,
           Tick, Panic

\* how the pool can change
LEMMA PoolSteps ==
  ASSUME [Next]_vars
  PROVE  \/ UNCHANGED pool
         \/ pool' = Entropy_Pool_Init
         \/ StoreHead
         \/ Absorb
         \/ Debias
BY DEF Next, User, Main, vars, Enter, HandleLength, SrcBegin, SrcFrame, Leave, Pass, ProduceChars, LoadBit,
   PasswordDone, StartRound, WaitBlock, Late, Overrun, Reset, SrcRound, SrcWait, BlockDone, Tick, Panic

\* the head that is written back moves on in its own queue
LEMMA StoreIs ==
  ASSUME IInv, StoreHead
  PROVE  LET c == BitChannel("light", i)
         IN  /\ pc = "store" /\ c \in Channels /\ UNCHANGED <<wiped, sub, drawBits, noise, used>>
             /\ pool' \in Pools /\ pool'.health = pool.health
             /\ pool'.fifo[c] = [bits |-> pool.fifo[c].bits, head |-> head + 1]
             /\ \A d \in Channels \ {c} : pool'.fifo[d] = pool.fifo[d]
<1> DEFINE c == BitChannel("light", i)
<1>1. pool \in Pools /\ head \in Nat
  BY DEF IInv, TypeOK, PoolTypes, DrawTypes
<1>2. c \in Channels
  BY Turns
<1>3. pool' = [pool EXCEPT !.fifo[c].head = head + 1] /\ pc = "store"
      /\ UNCHANGED <<wiped, sub, drawBits, noise, used>>
  BY DEF StoreHead, genVars, textVars, histVars
<1> HIDE DEF c
<1>4. pool.fifo \in [Channels -> Fifos] /\ pool.health \in [Channels -> Healths]
  BY <1>1 DEF Pools
<1>5. pool' = [fifo   |-> [pool.fifo EXCEPT ![c] = [pool.fifo[c] EXCEPT !.head = head + 1]],
               health |-> pool.health]
  BY <1>1, <1>3 DEF Pools
<1>6. pool.fifo[c] \in Fifos
  BY <1>2, <1>4
<1>7. [pool.fifo[c] EXCEPT !.head = head + 1] = [bits |-> pool.fifo[c].bits, head |-> head + 1]
      /\ [bits |-> pool.fifo[c].bits, head |-> head + 1] \in Fifos
  BY <1>1, <1>6 DEF Fifos
<1>8. pool'.fifo = [pool.fifo EXCEPT ![c] = [bits |-> pool.fifo[c].bits, head |-> head + 1]]
      /\ pool'.health = pool.health
  BY <1>5, <1>7
<1>9. pool' \in Pools
  BY <1>4, <1>5, <1>7 DEF Pools
<1> QED BY <1>2, <1>3, <1>4, <1>8, <1>9 DEF c

\* outside Fifo_Compact, and while nothing is debiased in it, the pairs stay
LEMMA SamePairs ==
  ASSUME UNCHANGED noise, UNCHANGED <<pc, sub>> \/ (pc \notin Compacting /\ pc' \notin Compacting)
  PROVE  \A c : Pairs(c)' = Pairs(c)
BY DEF Pairs, Waited

\* pairs are counted
LEMMA PairsAre ==
  ASSUME IInv, NEW c \in Channels
  PROVE  /\ noise[c] \in Seq(Samples) /\ Len(noise[c]) \in Nat /\ Len(noise[c]) % 2 = 0 /\ Pairs(c) \in Nat
         /\ pc \notin Compacting => Pairs(c) = Len(noise[c]) \div 2
<1>1. noise[c] \in Seq(Samples) /\ Len(noise[c]) % 2 = 0
  BY DEF IInv, TypeOK, HistTypes, Gathered
<1>2. Len(noise[c]) \in Nat
  BY <1>1
<1>5. \A n \in Nat : n \div 2 \in Nat
  OBVIOUS
<1>3. CASE pc \in Compacting /\ c = Waited
  <2>1. Len(noise[c]) >= BlockSamples /\ BlockSamples \in Nat
    BY <1>3, Constants DEF IInv, Compaction
  <2>2. Pairs(c) = (Len(noise[c]) - BlockSamples) \div 2
    BY <1>3 DEF Pairs
  <2>4. Len(noise[c]) - BlockSamples \in Nat
    BY <1>2, <2>1
  <2>3. Pairs(c) \in Nat
    BY <1>5, <2>2, <2>4, Zenon
  <2> QED BY <1>1, <1>2, <1>3, <2>3
<1>4. CASE ~ (pc \in Compacting /\ c = Waited)
  <2>1. Pairs(c) = (Len(noise[c]) - 0) \div 2
    BY <1>4 DEF Pairs
  <2>2. Pairs(c) = Len(noise[c]) \div 2
    BY <1>2, <2>1
  <2>3. Pairs(c) \in Nat
    BY <1>2, <1>5, <2>2, Zenon
  <2> QED BY <1>1, <1>2, <2>2, <2>3
<1> QED BY <1>3, <1>4

\* the block that is tested is the last of the noise, and of the other
\* channel there is no more than before
LEMMA AbsorbFacts ==
  ASSUME IInv, Absorb
  PROVE  \E block \in Blocks :
           /\ TestsBlock(Waited, block) /\ block \in Seq(Samples)
           /\ noise'[Waited] = noise[Waited] \o block
           /\ \A d \in Channels \ {Waited} : noise'[d] = noise[d]
           /\ noise' \in [Channels -> Seq(Samples)]
           /\ Len(noise'[Waited]) >= BlockSamples
           /\ \A d \in Channels : Len(noise'[d]) % 2 = 0 /\ Pairs(d)' \in Nat /\ Pairs(d) <= Pairs(d)'
           /\ pool' \in Pools /\ pool'.fifo = pool.fifo
           /\ pool'.health[Waited] = HealthAfter(pool.health[Waited], block)
           /\ \A d \in Channels \ {Waited} : pool'.health[d] = pool.health[d]
<1>1. PICK block \in Blocks : TestsBlock(Waited, block)
  BY AbsorbIs
<1>2. pc = "absorb" /\ Waited \in Channels /\ Waited' = Waited
  BY AbsorbIs
<1>3. block \in Seq(Samples) /\ Len(block) = BlockSamples /\ BlockSamples \in Nat /\ BlockSamples % 2 = 0
  BY BlockTypes
<1>4. noise \in [Channels -> Seq(Samples)] /\ pool \in Pools
  BY DEF IInv, TypeOK, HistTypes, PoolTypes
<1>5. PICK c : c = Waited
  OBVIOUS
<1> DEFINE s == noise[c]
<1>6. noise' = [noise EXCEPT ![c] = s \o block] /\ pool' = [pool EXCEPT !.health[c] = HealthAfter(pool.health[c], block)]
  BY <1>1, <1>5 DEF TestsBlock
<1>7. s \in Seq(Samples) /\ Len(s) \in Nat /\ Len(s) % 2 = 0 /\ Pairs(c) = Len(s) \div 2
  BY <1>2, <1>5, PairsAre DEF Compacting
<1>8. s \o block \in Seq(Samples) /\ Len(s \o block) = Len(s) + BlockSamples
  BY <1>3, <1>7, Joined, Zenon
<1>9. noise'[c] = s \o block /\ (\A d \in Channels \ {c} : noise'[d] = noise[d])
      /\ noise' \in [Channels -> Seq(Samples)]
  BY <1>2, <1>4, <1>5, <1>6, <1>8
<1>10. ASSUME NEW d \in Channels, d # c
       PROVE  Len(noise'[d]) % 2 = 0 /\ Pairs(d)' \in Nat /\ Pairs(d) <= Pairs(d)'
  <2>1. Pairs(d)' = (Len(noise[d]) - 0) \div 2
    BY <1>2, <1>5, <1>9, <1>10 DEF Pairs
  <2>2. /\ Len(noise[d]) \in Nat /\ Len(noise[d]) % 2 = 0 /\ Pairs(d) \in Nat
        /\ Pairs(d) = Len(noise[d]) \div 2
    BY <1>2, PairsAre DEF Compacting
  <2>3. Pairs(d)' = Pairs(d)
    BY <2>1, <2>2
  <2>4. noise'[d] = noise[d] /\ Pairs(d) <= Pairs(d)
    BY <1>9, <1>10, <2>2
  <2> QED BY <2>2, <2>3, <2>4, Zenon
<1>11. Len(noise'[c]) % 2 = 0 /\ Pairs(c)' \in Nat /\ Pairs(c) <= Pairs(c)' /\ Len(noise'[c]) >= BlockSamples
  <2> DEFINE m == Len(s)
             n == BlockSamples
  <2>1. m \in Nat /\ n \in Nat /\ m % 2 = 0 /\ n % 2 = 0 /\ Len(noise'[c]) = m + n /\ Pairs(c) = m \div 2
    BY <1>3, <1>7, <1>8, <1>9
  <2>2. Pairs(c)' = (m + n - (IF pc' \in Compacting THEN n ELSE 0)) \div 2
    BY <1>2, <1>5, <2>1 DEF Pairs
  <2> HIDE DEF m, n
  <2>3. (m + n) % 2 = 0 /\ m + n - n = m /\ m + n - 0 = m + n /\ m + n >= n
        /\ (m + n) \div 2 = (m \div 2) + (n \div 2) /\ n \div 2 \in Nat /\ m \div 2 \in Nat
    BY <2>1
  <2>4. Pairs(c)' = m \div 2 \/ Pairs(c)' = (m \div 2) + (n \div 2)
    BY <2>2, <2>3
  <2>5. Pairs(c)' \in Nat /\ Pairs(c) <= Pairs(c)'
    BY <2>1, <2>3, <2>4
  <2> QED BY <2>1, <2>3, <2>5 DEF n
<1>12. HealthAfter(pool.health[c], block) \in Healths
  BY <1>2, <1>3, <1>4, <1>5, PoolFields, HealthAfterTypes
<1>13. /\ pool' \in Pools /\ pool'.fifo = pool.fifo
       /\ pool'.health[c] = HealthAfter(pool.health[c], block)
       /\ \A d \in Channels \ {c} : pool'.health[d] = pool.health[d]
  <2> DEFINE h == HealthAfter(pool.health[c], block)
  <2>1. h \in Healths /\ pool' = [pool EXCEPT !.health[c] = h]
    BY <1>6, <1>12
  <2> HIDE DEF h
  <2>2. /\ pool' \in Pools /\ pool'.fifo = pool.fifo /\ pool'.health[c] = h
        /\ \A d \in Channels \ {c} : pool'.health[d] = pool.health[d]
    BY <1>2, <1>4, <1>5, <2>1, TestsChanged
  <2> QED BY <2>2 DEF h
<1>14. \A d \in Channels : Len(noise'[d]) % 2 = 0 /\ Pairs(d)' \in Nat /\ Pairs(d) <= Pairs(d)'
  BY <1>10, <1>11
<1> QED BY <1>1, <1>3, <1>5, <1>9, <1>11, <1>13, <1>14

\* the queue that Fifo_Compact works on: that of the pool, unless a panic
\* came, and then one inside the array, whose head can lie past the count
LEMMA LoadedIs ==
  ASSUME IInv, pc \in Compacting
  PROVE  /\ Waited \in Channels /\ Loaded \in Fifos
         /\ ~wiped => Loaded = pool.fifo[Waited]
         /\ pc = "compactCount" \/ ~wiped => Loaded.head <= Len(Loaded.bits)
<1>1. Waited \in Channels
  BY DEF Waited, Channels
<1> DEFINE f == pool.fifo[Waited]
           n == IF pc = "compactCount" THEN count ELSE Len(f.bits)
           h == IF pc = "compactHead" THEN head ELSE f.head
           b == [k \in 1..n |-> IF k <= Len(f.bits) THEN f.bits[k] ELSE Zeroed]
<1>2. f \in Fifos /\ f.bits \in Seq(Nat) /\ f.head \in Nat
  BY <1>1, PoolFields DEF IInv, TypeOK, PoolTypes
<1>3. count \in Nat /\ head \in Nat
  BY Constants DEF IInv, TypeOK, DrawTypes
<1>4. Loaded = [bits |-> b, head |-> h]
  BY DEF Loaded
<1>5. /\ pc = "compactHead" /\ ~wiped => head = f.head
      /\ pc = "compactCount" => f.head <= count
      /\ pc = "compactCount" /\ ~wiped => count = Len(f.bits)
      /\ ~wiped => f.head <= Len(f.bits)
      /\ pc \in {"compactHead", "compactCount"}
  BY <1>1 DEF IInv, Compaction, Queues, Compacting
<1> HIDE DEF f
<1>6. n \in Nat /\ h \in Nat
  BY <1>2, <1>3
<1>7. b \in Seq(Nat) /\ Len(b) = n
  <2> HIDE DEF n
  <2>1. \A k \in 1..n : (IF k <= Len(f.bits) THEN f.bits[k] ELSE Zeroed) \in Nat
    BY <1>2, <1>6 DEF Zeroed
  <2> QED BY <1>6, <2>1
<1>8. ~wiped => n = Len(f.bits) /\ h = f.head
  BY <1>5
<1>9. n = Len(f.bits) => b = f.bits
  BY <1>2
<1>10. pc = "compactCount" \/ ~wiped => h <= n
  BY <1>5, <1>8
<1> HIDE DEF n, h, b
<1>11. Loaded \in Fifos /\ Loaded.bits = b /\ Loaded.head = h
  BY <1>4, <1>6, <1>7 DEF Fifos
<1>12. ~wiped => Loaded = f
  BY <1>2, <1>4, <1>8, <1>9 DEF Fifos
<1> QED BY <1>1, <1>7, <1>10, <1>11, <1>12 DEF f

\* what Debias does to the pool
LEMMA DebiasIs ==
  ASSUME IInv, Debias
  PROVE  /\ Waited \in Channels /\ Loaded \in Fifos /\ Loaded.head <= Len(Loaded.bits)
         /\ ~wiped => Loaded = pool.fifo[Waited]
         /\ pool' \in Pools /\ pool'.health = pool.health
         /\ \A d \in Channels \ {Waited} : pool'.fifo[d] = pool.fifo[d]
         /\ \A d \in Channels : Pairs(d) \in Nat /\ Pairs(d)' \in Nat /\ Pairs(d) <= Pairs(d)'
         /\ \A c \in Channels : c = Waited =>
              \E block \in Seq(Samples) : /\ pool'.fifo[c] = Absorbed(Loaded, block, Pairs(c) + 1)
                                           /\ Pairs(c)' = Pairs(c) + (Len(block) \div 2)
<1>1. pc \in Compacting /\ noise' = noise /\ pc' \notin Compacting
  BY DebiasControl DEF Compacting, histVars
<1>2. /\ Waited \in Channels /\ Loaded \in Fifos
      /\ ~wiped => Loaded = pool.fifo[Waited]
  BY <1>1, LoadedIs
<1>3. PICK c : c = Waited
  OBVIOUS
<1> DEFINE m     == Len(noise[c])
           n     == BlockSamples
           block == SubSeq(noise[c], (m - n) + 1, m)
           f     == Absorbed(Loaded, block, (m - n) \div 2 + 1)
<1>4. Loaded.head <= Len(Loaded.bits) /\ pool' = [pool EXCEPT !.fifo[c] = f]
  BY <1>3 DEF Debias
<1>5. noise[c] \in Seq(Samples) /\ m \in Nat /\ m % 2 = 0 /\ Pairs(c) \in Nat
  BY <1>2, <1>3, PairsAre
<1>6. m >= n /\ n \in Nat /\ n % 2 = 0
  BY <1>1, <1>3, Constants DEF IInv, Compaction
<1>7. block \in Seq(Samples) /\ Len(block) = n
  <2> DEFINE h == m - n
  <2>1. h \in Nat /\ h <= m /\ m - h = n
    BY <1>5, <1>6
  <2> HIDE DEF h
  <2>2. SubSeq(noise[c], h + 1, m) \in Seq(Samples) /\ Len(SubSeq(noise[c], h + 1, m)) = m - h
    BY <1>5, <2>1, Suffix, Zenon
  <2> QED BY <2>1, <2>2 DEF h
<1> HIDE DEF block
<1>8. Pairs(c) = (m - n) \div 2 /\ Pairs(c)' = m \div 2
  <2>1. Pairs(c) = (m - n) \div 2
    BY <1>1, <1>3 DEF Pairs
  <2>2. Pairs(c)' = (m - 0) \div 2
    BY <1>1 DEF Pairs
  <2> QED BY <1>5, <2>1, <2>2
<1>9. Pairs(c)' = Pairs(c) + (Len(block) \div 2) /\ Len(block) \div 2 \in Nat
  <2> DEFINE x == m - n
  <2>1. x \in Nat /\ x % 2 = 0 /\ m = x + n
    <3> HIDE DEF m, n
    <3> QED BY <1>5, <1>6
  <2> HIDE DEF x
  <2>2. (x + n) \div 2 = (x \div 2) + (n \div 2) /\ n \div 2 \in Nat
    BY <1>6, <2>1
  <2> QED BY <1>7, <1>8, <2>1, <2>2 DEF x
<1>10. f \in Fifos
  <2>1. Pairs(c) + 1 \in Nat \ {0} /\ f = Absorbed(Loaded, block, Pairs(c) + 1)
    BY <1>5, <1>8
  <2> QED BY <1>2, <1>4, <1>7, <2>1, AbsorbedTypes, Zenon
<1>11. pool \in Pools
  BY DEF IInv, TypeOK, PoolTypes
<1>12. f = Absorbed(Loaded, block, Pairs(c) + 1)
  BY <1>8
<1> HIDE DEF f
<1>13. /\ pool' \in Pools /\ pool'.health = pool.health /\ pool'.fifo[c] = f
       /\ \A d \in Channels \ {c} : pool'.fifo[d] = pool.fifo[d]
  BY <1>2, <1>3, <1>4, <1>10, <1>11, QueueChanged
<1>14. ASSUME NEW d \in Channels PROVE Pairs(d) \in Nat /\ Pairs(d)' \in Nat /\ Pairs(d) <= Pairs(d)'
  <2>1. Pairs(d) \in Nat
    BY PairsAre
  <2>2. CASE d = c
    BY <1>9, <2>1, <2>2
  <2>3. CASE d # c
    <3>1. Pairs(d)' = Pairs(d)
      BY <1>1, <1>3, <2>3 DEF Pairs
    <3> QED BY <2>1, <3>1
  <2> QED BY <2>2, <2>3
<1>15. \E b \in Seq(Samples) : pool'.fifo[c] = Absorbed(Loaded, b, Pairs(c) + 1) /\ Pairs(c)' = Pairs(c) + (Len(b) \div 2)
  BY <1>7, <1>9, <1>12, <1>13
<1> QED BY <1>2, <1>3, <1>4, <1>13, <1>14, <1>15

\* every step keeps the queues within FifoCap
LEMMA NextPoolTypes ==
  ASSUME IInv, [Next]_vars
  PROVE  PoolTypes'
<1>1. CASE UNCHANGED pool
  BY <1>1 DEF IInv, TypeOK, PoolTypes
<1>2. CASE pool' = Entropy_Pool_Init
  <2>1. \A c \in Channels : Len(pool'.fifo[c].bits) = 0
    BY <1>2, InitPool
  <2> QED BY <1>2, <2>1, InitPool, Constants DEF PoolTypes
<1>3. CASE StoreHead
  <2> DEFINE c == BitChannel("light", i)
  <2>1. /\ pool' \in Pools /\ c \in Channels /\ pool'.fifo[c].bits = pool.fifo[c].bits
        /\ \A d \in Channels \ {c} : pool'.fifo[d] = pool.fifo[d]
    BY <1>3, StoreIs
  <2>2. \A d \in Channels : Len(pool.fifo[d].bits) <= FifoCap
    BY DEF IInv, TypeOK, PoolTypes
  <2> HIDE DEF c
  <2> QED BY <2>1, <2>2 DEF PoolTypes
<1>4. CASE Absorb
  <2>1. pool' \in Pools /\ pool'.fifo = pool.fifo
    BY <1>4, AbsorbFacts
  <2> QED BY <2>1 DEF IInv, TypeOK, PoolTypes
<1>5. CASE Debias
  <2>1. PICK c \in Channels : c = Waited
    BY <1>5, DebiasIs
  <2>2. pool' \in Pools /\ \A d \in Channels \ {c} : pool'.fifo[d] = pool.fifo[d]
    BY <1>5, <2>1, DebiasIs
  <2>3. PICK block \in Seq(Samples) : pool'.fifo[c] = Absorbed(Loaded, block, Pairs(c) + 1)
    BY <1>5, <2>1, DebiasIs
  <2>4. Loaded \in Fifos /\ Loaded.head <= Len(Loaded.bits) /\ Pairs(c) + 1 \in Nat \ {0}
    BY <1>5, <2>1, DebiasIs
  <2>5. Len(pool'.fifo[c].bits) <= FifoCap
    BY <2>3, <2>4, AbsorbedTypes
  <2> QED BY <2>2, <2>5 DEF IInv, TypeOK, PoolTypes
<1> QED BY <1>1, <1>2, <1>3, <1>4, <1>5, PoolSteps

\* the bit that is taken is the lowest of a sample, or a zero
LEMMA TakenIs ==
  ASSUME IInv, pc = "load"
  PROVE  LET c == BitChannel("light", i)
         IN  /\ c \in Channels /\ Taken \in Nat
             /\ pool.fifo[c].head < Len(pool.fifo[c].bits) =>
                  Taken = pool.fifo[c].bits[pool.fifo[c].head + 1]
             /\ BitValue(c, Taken) \in {0, 1}
<1> DEFINE c == BitChannel("light", i)
           f == pool.fifo[c]
           s == noise[c]
<1>1. c \in Channels
  BY Turns
<1>2. f.bits \in Seq(Nat) /\ f.head \in Nat
  BY <1>1, PoolFields DEF IInv, TypeOK, PoolTypes
<1>3. s \in Seq(Samples)
  BY <1>1 DEF IInv, TypeOK, HistTypes
<1>4. \A k \in 1..Len(f.bits) : f.bits[k] \in 1..(Len(s) \div 2)
  <2>1. CASE wiped
    <3>1. Len(f.bits) = 0
      BY <1>1, <2>1 DEF IInv, Queues
    <3> QED BY <3>1
  <2>2. CASE ~wiped
    <3>1. Pairs(c) = Len(s) \div 2
      BY <1>1, PairsAre DEF Compacting
    <3> QED BY <1>1, <2>2, <3>1 DEF IInv, Gathered
  <2> QED BY <2>1, <2>2
<1>5. Taken = IF f.head < Len(f.bits) THEN f.bits[f.head + 1] ELSE 0
  BY DEF Taken, HeadBit, Zeroed
<1>6. BitValue(c, Taken) = IF Taken = 0 THEN 0 ELSE s[2 * Taken - 1] % 2
  BY DEF BitValue, Zeroed, LowBit
<1> HIDE DEF c, f, s
<1>7. CASE f.head < Len(f.bits)
  <2>1. f.head + 1 \in 1..Len(f.bits)
    BY <1>2, <1>7
  <2>2. Taken \in 1..(Len(s) \div 2) /\ Taken = f.bits[f.head + 1]
    BY <1>4, <1>5, <1>7, <2>1
  <2>3. 2 * Taken - 1 \in 1..Len(s) /\ Taken \in Nat /\ Taken # 0
    BY <1>3, <2>2
  <2>4. s[2 * Taken - 1] \in Nat
    <3>1. s[2 * Taken - 1] \in Samples
      BY <1>3, <2>3
    <3> QED BY <3>1, SamplesAssumption
  <2>5. s[2 * Taken - 1] % 2 \in {0, 1}
    BY <2>4
  <2> QED BY <1>1, <1>6, <2>2, <2>3, <2>5 DEF c, f
<1>8. CASE ~ (f.head < Len(f.bits))
  BY <1>1, <1>5, <1>6, <1>8 DEF c, f
<1> QED BY <1>7, <1>8

\* every step keeps the draw below the values of its bits so far
LEMMA NextDrawing ==
  ASSUME IInv, [Next]_vars
  PROVE  Drawing'
<1>1. CASE UNCHANGED <<drawBits, value, i>> /\ pc \notin {"load", "store"} /\ pc' # "store"
           /\ (pc' = "load" => 0 < drawBits)
  <2>1. Span[0] = 1
    BY SpanDef
  <2> QED BY <1>1, <2>1 DEF IInv, Drawing
<1>2. CASE UNCHANGED <<pc, drawBits, drawVars, pool, wiped>>
  BY <1>2 DEF IInv, Drawing, drawVars
<1>3. CASE UNCHANGED <<pc, drawBits, drawVars>> /\ wiped'
  BY <1>3 DEF IInv, Drawing, drawVars
<1>4. CASE HandleLength
  BY <1>4 DEF HandleLength, IInv, Drawing, drawVars
<1>5. CASE LoadBit
  <2> DEFINE c == BitChannel("light", i)
             v == BitValue(c, Taken)
  <2>1. pc = "load" /\ value' = 2 * value + v /\ head' = pool.fifo[c].head /\ pc' = "store"
        /\ UNCHANGED <<drawBits, i, pool>>
    BY <1>5 DEF LoadBit, genVars, textVars
  <2>2. v \in {0, 1}
    BY <2>1, TakenIs
  <2>3. value \in Nat /\ value < Span[i] /\ i < drawBits /\ drawBits \in 1..MaxDrawBits
        /\ i \in 0..(MaxDrawBits - 1) /\ MaxDrawBits \in Nat
    <3>1. Span[MaxDrawBits] \in Nat
      BY SpanDef, Constants
    <3> QED BY <2>1, <3>1, Constants DEF IInv, Drawing, TypeOK, DrawTypes, TextTypes
  <2>4. Span[i + 1] = 2 * Span[i] /\ Span[i] \in Nat
    <3>1. i + 1 \in 1..MaxDrawBits /\ i + 1 - 1 = i /\ i \in 0..MaxDrawBits
      BY <2>3
    <3> QED BY <3>1, SpanDef
  <2> HIDE DEF v
  <2>5. value' < Span[i + 1]
    BY <2>1, <2>2, <2>3, <2>4
  <2> QED BY <2>1, <2>3, <2>5 DEF Drawing
<1>6. CASE StoreHead
  <2>1. i \in Nat /\ drawBits \in Nat /\ pc = "store" /\ value < Span[i + 1]
    BY <1>6, Constants DEF StoreHead, IInv, Drawing, TypeOK, DrawTypes, TextTypes
  <2> QED BY <1>6, <2>1 DEF StoreHead, Drawing, genVars, textVars
<1>7. drawBits \in Nat \ {0}
  BY Constants DEF IInv, TypeOK, TextTypes
<1>8. CASE Enter \/ SrcBegin \/ Pass \/ ProduceChars \/ PasswordDone \/ WaitBlock \/ Late \/ SrcRound
           \/ SrcWait
  BY <1>1, <1>7, <1>8 DEF Enter, SrcBegin, SrcFrame, Pass, ProduceChars, PasswordDone, WaitBlock,
     NothingToProduce, Late, SrcRound, SrcWait, genVars, textVars, drawVars
<1>9. CASE StartRound
  BY <1>1, <1>7, <1>9 DEF StartRound, NothingToProduce, textVars, drawVars
<1>10. CASE Absorb \/ Debias
  <2>1. pc \notin {"load", "store"} /\ pc' # "store" /\ pc' # "load" /\ UNCHANGED <<drawBits, value, i>>
    BY <1>10, AbsorbControl, DebiasControl DEF genVars, textVars, Compacting
  <2> QED BY <1>1, <2>1
<1>11. CASE Leave
  BY <1>1, <1>7, <1>11 DEF Leave, textVars, drawVars
<1>12. CASE BlockDone \/ Tick
  BY <1>2, <1>12 DEF BlockDone, Tick, genVars, textVars
<1>13. CASE Panic
  BY <1>3, <1>13 DEF Panic, textVars
<1>14. CASE UNCHANGED vars
  BY <1>2, <1>14 DEF vars, genVars, textVars
<1>15. CASE Overrun
  BY <1>1, <1>7, <1>15 DEF Overrun, genVars, textVars, drawVars
<1>16. CASE Reset
  <2>1. pc' = "loop" /\ value' = 0 /\ i' = 0
    BY <1>16 DEF Reset
  <2> QED BY <2>1 DEF Drawing
<1> QED BY <1>4, <1>5, <1>6, <1>8, <1>9, <1>10, <1>11, <1>12, <1>13, <1>14, <1>15, <1>16 DEF Next, User, Main

\* and its types
LEMMA NextDrawTypes ==
  ASSUME IInv, [Next]_vars, Drawing', TextTypes'
  PROVE  DrawTypes'
<1>1. MaxDrawBits \in Nat \ {0} /\ 0 \in 0..MaxDrawBits /\ MaxDrawBits \in 0..MaxDrawBits
  BY Constants
<1>2. Span[MaxDrawBits] \in Nat \ {0}
  BY <1>1, SpanDef
<1>3. value \in Nat /\ i \in Nat /\ head \in Nat /\ count \in 0..FifoCap /\ 0 \in 0..FifoCap
  BY <1>1, <1>2, Constants DEF IInv, TypeOK, DrawTypes
<1>4. value' \in Nat /\ i' \in Nat /\ head' \in Nat /\ count' \in 0..FifoCap
  <2>1. CASE UNCHANGED drawVars
    BY <1>3, <2>1 DEF drawVars
  <2>2. CASE LoadBit
    <3> DEFINE c == BitChannel("light", i)
               v == BitValue(c, Taken)
    <3>1. v \in {0, 1} /\ c \in Channels
      BY <2>2, TakenIs DEF LoadBit
    <3>2. value' = 2 * value + v /\ head' = pool.fifo[c].head /\ i' = i /\ count' = count
      BY <2>2 DEF LoadBit
    <3>3. pool.fifo[c].head \in Nat
      BY <3>1, PoolFields DEF IInv, TypeOK, PoolTypes
    <3> HIDE DEF v, c
    <3> QED BY <1>3, <3>1, <3>2, <3>3
  <2>3. CASE StoreHead
    BY <1>3, <2>3 DEF StoreHead
  <2>4. CASE Absorb
    <3>1. Waited \in Channels
      BY DEF Waited, Channels
    <3>2. /\ pool.fifo[Waited].head \in Nat /\ pool.fifo[Waited].bits \in Seq(Nat)
          /\ Len(pool.fifo[Waited].bits) <= FifoCap
      BY <3>1, PoolFields DEF IInv, TypeOK, PoolTypes
    <3>3. Len(pool.fifo[Waited].bits) \in 0..FifoCap
      BY <3>2, Constants
    <3> QED BY <1>3, <2>4, <3>2, <3>3, AbsorbControl
  <2>5. CASE Debias
    BY <1>3, <2>5, DebiasControl
  <2>6. CASE Reset
    BY <1>3, <2>6 DEF Reset
  <2> QED BY <2>1, <2>2, <2>3, <2>4, <2>5, <2>6 DEF Next, User, Main, vars, Enter, HandleLength, SrcBegin, SrcFrame,
             Leave, Pass, ProduceChars, PasswordDone, StartRound, WaitBlock, Late, Overrun, SrcRound, SrcWait,
             BlockDone, Tick, Panic
<1>5. CASE pc' \notin {"load", "store"}
  BY <1>1, <1>2, <1>4, <1>5 DEF Drawing, DrawTypes
<1>6. CASE pc' \in {"load", "store"}
  <2>1. drawBits' \in 1..MaxDrawBits
    BY DEF TextTypes
  <2>2. i' \in 0..(MaxDrawBits - 1) /\ i' \in 0..MaxDrawBits /\ i' + 1 \in 0..MaxDrawBits
        /\ i' <= MaxDrawBits /\ i' + 1 <= MaxDrawBits
    <3>1. i' < drawBits'
      BY <1>6 DEF Drawing
    <3> DEFINE k == i'
               b == drawBits'
               m == MaxDrawBits
    <3>2. k \in Nat /\ b \in 1..m /\ m \in Nat /\ k < b
      BY <1>1, <1>4, <2>1, <3>1
    <3> HIDE DEF k, b, m
    <3>3. k \in 0..(m - 1) /\ k \in 0..m /\ k + 1 \in 0..m /\ k <= m /\ k + 1 <= m
      BY <3>2
    <3> QED BY <3>3 DEF k, m
  <2>3. Span[i'] <= Span[MaxDrawBits] /\ Span[i' + 1] <= Span[MaxDrawBits]
    BY <1>1, <2>2, SpanRises
  <2>4. Span[i'] \in Nat /\ Span[i' + 1] \in Nat
    BY <2>2, SpanDef
  <2>5. value' < Span[MaxDrawBits]
    BY <1>2, <1>4, <1>6, <2>3, <2>4 DEF Drawing
  <2> QED BY <1>2, <1>4, <2>2, <2>5 DEF DrawTypes
<1> QED BY <1>5, <1>6

\* every step keeps the types of the histories
LEMMA NextHistTypes ==
  ASSUME IInv, [Next]_vars
  PROVE  HistTypes'
<1>1. noise \in [Channels -> Seq(Samples)] /\ used \in [Channels -> Seq(Nat)]
  BY DEF IInv, TypeOK, HistTypes
<1>2. CASE UNCHANGED histVars
  BY <1>1, <1>2 DEF histVars, HistTypes
<1>3. CASE Leave \/ Reset
  BY <1>3, EmptyIs DEF Leave, Reset, HistTypes
<1>4. CASE LoadBit
  <2> DEFINE c == BitChannel("light", i)
  <2>1. c \in Channels /\ Taken \in Nat
    BY <1>4, TakenIs DEF LoadBit
  <2>2. noise' = noise /\ used' = [used EXCEPT ![c] = Append(used[c], Taken)]
    BY <1>4 DEF LoadBit
  <2> HIDE DEF c
  <2>3. Append(used[c], Taken) \in Seq(Nat)
    <3>1. used[c] \in Seq(Nat)
      BY <1>1, <2>1
    <3> QED BY <2>1, <3>1
  <2> QED BY <1>1, <2>1, <2>2, <2>3 DEF HistTypes
<1>5. CASE Absorb
  <2>1. noise' \in [Channels -> Seq(Samples)]
    BY <1>5, AbsorbFacts
  <2>2. used' = used
    BY <1>5, AbsorbControl
  <2> QED BY <1>1, <2>1, <2>2 DEF HistTypes
<1> QED BY <1>2, <1>3, <1>4, <1>5 DEF Next, User, Main, vars, Enter, HandleLength, SrcBegin, SrcFrame, Pass,
           ProduceChars, StoreHead, PasswordDone, StartRound, WaitBlock, Late, Overrun, Debias, SrcRound, SrcWait, BlockDone,
           Tick, Panic

\* one bit less is needed of the channel whose turn it is, of the other as many
LEMMA NeedStep ==
  ASSUME NEW k \in Nat, drawBits \in Nat, k < drawBits
  PROVE  LET c == BitChannel("light", k)
         IN  /\ Need(c, k + 1) \in Nat /\ Need(c, k) = Need(c, k + 1) + 1
             /\ \A d \in Channels \ {c} : Need(d, k) = Need(d, k + 1) /\ Need(d, k) \in Nat
<1>1. CASE k % 2 = 0
  <2>1. (k + 1) % 2 # 0
    BY <1>1
  <2> QED BY <1>1, <2>1 DEF Need, BitChannel, Other, Channels
<1>2. CASE k % 2 # 0
  <2>1. (k + 1) % 2 = 0
    BY <1>2
  <2> QED BY <1>2, <2>1 DEF Need, BitChannel, Other, Channels
<1> QED BY <1>1, <1>2

\* every step keeps the heads inside the queues, and in a draw with as many bits
\* after them as the draw still takes
LEMMA NextQueues ==
  ASSUME IInv, [Next]_vars
  PROVE  Queues'
<1> DEFINE Inside == \A c \in Channels : pool.fifo[c].head <= Len(pool.fifo[c].bits)
           Enough4(k) == \A c \in Channels : pool.fifo[c].head + Need(c, k) <= Len(pool.fifo[c].bits)
<1>1. Queues <=> /\ (wiped /\ pc \in {"produce", "load", "store"} => \A c \in Channels : Len(pool.fifo[c].bits) = 0)
                 /\ (~wiped \/ pc \in {"wait", "absorb"} => Inside)
                 /\ (~wiped /\ pc \in {"load", "store"} => Enough4(i))
  BY DEF Queues
<1>2. CASE UNCHANGED <<pool, drawBits, wiped, i>> /\ (~wiped \/ pc' \notin {"wait", "absorb"})
           /\ pc' \notin {"load", "store"} /\ (~wiped \/ pc' # "produce")
  BY <1>2 DEF IInv, Queues
<1>3. CASE UNCHANGED <<pool, drawBits, wiped, i, pc>>
  BY <1>3 DEF IInv, Queues, Need
<1>4. CASE pool' = Entropy_Pool_Init /\ (wiped' \/ pc' \notin {"load", "store"})
  <2>1. \A c \in Channels : pool'.fifo[c].head <= Len(pool'.fifo[c].bits) /\ Len(pool'.fifo[c].bits) = 0
    <3>1. \A c \in Channels : pool'.fifo[c].head = 0 /\ Len(pool'.fifo[c].bits) = 0
      BY <1>4, InitPool
    <3> QED BY <3>1
  <2> QED BY <1>4, <2>1 DEF Queues
<1>5. CASE ProduceChars
  <2>1. pc = "produce" /\ pc' = "load" /\ UNCHANGED <<pool, drawBits, wiped, i>>
        /\ Enough(pool, drawBits, "light")
    BY <1>5 DEF ProduceChars, genVars, textVars, drawVars
  <2>2. i = 0 /\ drawBits \in Nat
    BY <2>1, Constants DEF IInv, Drawing, TypeOK, TextTypes
  <2>3. CASE wiped
    BY <2>1, <2>3 DEF IInv, Queues
  <2>4. CASE ~wiped
    <3>1. ASSUME NEW c \in Channels
          PROVE  /\ Fifo_Available(pool.fifo[c]) = Len(pool.fifo[c].bits) - pool.fifo[c].head
                 /\ pool.fifo[c].head \in Nat /\ Len(pool.fifo[c].bits) \in Nat
                 /\ pool.fifo[c].head <= Len(pool.fifo[c].bits)
      <4>1. pool \in Pools /\ Len(pool.fifo[c].bits) <= FifoCap /\ pool.fifo[c].head <= Len(pool.fifo[c].bits)
        BY <2>4 DEF IInv, TypeOK, PoolTypes, Queues
      <4>2. pool.fifo[c] \in Fifos /\ pool.fifo[c].bits \in Seq(Nat) /\ pool.fifo[c].head \in Nat
        BY <4>1, PoolFields
      <4>3. Len(pool.fifo[c].bits) \in Nat
        BY <4>2
      <4> QED BY <4>1, <4>2, <4>3, AvailableInside
    <3>2. Need("light", 0) = (drawBits + 1) \div 2 /\ Need("temp", 0) = drawBits \div 2
      BY <2>2 DEF Need, BitChannel, Other
    <3>3. Fifo_Available(pool.fifo["light"]) >= (drawBits + 1) \div 2
          /\ Fifo_Available(pool.fifo["temp"]) >= drawBits \div 2
      BY <2>1 DEF Enough, Other
    <3>4. ASSUME NEW c \in Channels PROVE pool.fifo[c].head + Need(c, 0) <= Len(pool.fifo[c].bits)
      <4>1. Need(c, 0) <= Fifo_Available(pool.fifo[c]) /\ Need(c, 0) \in Nat
        BY <2>2, <3>1, <3>2, <3>3 DEF Channels
      <4> QED BY <3>1, <4>1
    <3> QED BY <2>1, <2>2, <2>4, <3>1, <3>4 DEF Queues, Need
  <2> QED BY <2>3, <2>4
<1>6. CASE LoadBit
  <2>1. pc = "load" /\ pc' = "store" /\ UNCHANGED <<pool, drawBits, wiped, i>>
    BY <1>6 DEF LoadBit, genVars, textVars
  <2> QED BY <2>1 DEF IInv, Queues, Need
<1>7. CASE StoreHead
  <2> DEFINE c == BitChannel("light", i)
  <2>1. /\ pc = "store" /\ c \in Channels /\ UNCHANGED <<wiped, drawBits>>
        /\ pool'.fifo[c] = [bits |-> pool.fifo[c].bits, head |-> head + 1]
        /\ \A d \in Channels \ {c} : pool'.fifo[d] = pool.fifo[d]
    BY <1>7, StoreIs
  <2>2. pc' = "produce" \/ (pc' = "load" /\ i' = i + 1)
    BY <1>7 DEF StoreHead
  <2>3. CASE wiped
    <3>1. \A d \in Channels : Len(pool'.fifo[d].bits) = Len(pool.fifo[d].bits)
      BY <2>1
    <3> QED BY <2>1, <2>2, <2>3, <3>1 DEF IInv, Queues
  <2>4. CASE ~wiped
    <3>1. head = pool.fifo[c].head /\ i < drawBits
      BY <2>1, <2>4 DEF IInv, Drawing
    <3>2. \A d \in Channels : /\ pool.fifo[d].head + Need(d, i) <= Len(pool.fifo[d].bits)
                              /\ pool.fifo[d].head \in Nat /\ Len(pool.fifo[d].bits) \in Nat
      BY <2>1, <2>4, PoolFields DEF IInv, TypeOK, PoolTypes, Queues
    <3>3. i \in Nat /\ drawBits \in Nat
      BY Constants DEF IInv, TypeOK, DrawTypes, TextTypes
    <3>4. /\ Need(c, i + 1) \in Nat /\ Need(c, i) = Need(c, i + 1) + 1
          /\ \A d \in Channels \ {c} : Need(d, i) = Need(d, i + 1) /\ Need(d, i) \in Nat
      BY <3>1, <3>3, NeedStep
    <3>5. pool'.fifo[c].bits = pool.fifo[c].bits /\ pool'.fifo[c].head = pool.fifo[c].head + 1
      BY <2>1, <3>1
    <3> HIDE DEF c
    <3>6. ASSUME NEW d \in Channels
          PROVE  /\ pool'.fifo[d].head + Need(d, i + 1) <= Len(pool'.fifo[d].bits)
                 /\ pool'.fifo[d].head <= Len(pool'.fifo[d].bits)
      <4>1. CASE d = c
        <5>1. pool'.fifo[d].head = pool.fifo[d].head + 1 /\ Len(pool'.fifo[d].bits) = Len(pool.fifo[d].bits)
          BY <3>5, <4>1
        <5>2. Need(d, i) = Need(d, i + 1) + 1 /\ Need(d, i + 1) \in Nat
          BY <3>4, <4>1
        <5>3. pool.fifo[d].head + Need(d, i) <= Len(pool.fifo[d].bits) /\ pool.fifo[d].head \in Nat
              /\ Len(pool.fifo[d].bits) \in Nat
          BY <3>2
        <5> DEFINE k == Need(d, i + 1)
        <5> HIDE DEF k
        <5>4. pool.fifo[d].head + (k + 1) <= Len(pool.fifo[d].bits) /\ k \in Nat
          BY <5>2, <5>3 DEF k
        <5>5. pool'.fifo[d].head + k <= Len(pool'.fifo[d].bits) /\ pool'.fifo[d].head <= Len(pool'.fifo[d].bits)
          BY <5>1, <5>3, <5>4
        <5> QED BY <5>5 DEF k
      <4>2. CASE d # c
        <5>1. pool'.fifo[d] = pool.fifo[d]
          BY <2>1, <4>2 DEF c
        <5>2. Need(d, i) = Need(d, i + 1) /\ Need(d, i) \in Nat
          BY <3>4, <4>2
        <5>3. pool.fifo[d].head + Need(d, i) <= Len(pool.fifo[d].bits) /\ pool.fifo[d].head \in Nat
              /\ Len(pool.fifo[d].bits) \in Nat
          BY <3>2
        <5>4. pool.fifo[d].head <= Len(pool.fifo[d].bits)
          BY <5>2, <5>3
        <5> QED BY <5>1, <5>2, <5>3, <5>4
      <4> QED BY <4>1, <4>2
    <3> QED BY <2>1, <2>2, <2>4, <3>6 DEF Queues, Need
  <2> QED BY <2>3, <2>4
<1>8. CASE Absorb
  <2>1. pool'.fifo = pool.fifo
    BY <1>8, AbsorbFacts
  <2>2. pc = "absorb" /\ pc' \notin {"wait", "absorb", "produce", "load", "store"} /\ UNCHANGED wiped
    BY <1>8, AbsorbControl DEF genVars
  <2> QED BY <2>1, <2>2 DEF IInv, Queues
<1>13. CASE Debias
  <2>1. pc' \notin {"wait", "absorb", "produce", "load", "store"} /\ UNCHANGED wiped
    BY <1>13, DebiasControl
  <2>2. CASE wiped
    BY <2>1, <2>2 DEF Queues
  <2>3. CASE ~wiped
    <3>1. PICK c \in Channels : c = Waited
      BY <1>13, DebiasIs
    <3>2. \A d \in Channels \ {c} : pool'.fifo[d] = pool.fifo[d]
      BY <1>13, <3>1, DebiasIs
    <3>3. PICK block \in Seq(Samples) : pool'.fifo[c] = Absorbed(Loaded, block, Pairs(c) + 1)
      BY <1>13, <3>1, DebiasIs
    <3>4. Loaded \in Fifos /\ Loaded.head <= Len(Loaded.bits) /\ Pairs(c) + 1 \in Nat \ {0}
      BY <1>13, <3>1, DebiasIs
    <3>5. pool'.fifo[c] \in Fifos /\ pool'.fifo[c].head = 0
      BY <3>3, <3>4, AbsorbedTypes
    <3>6. pool'.fifo[c].head <= Len(pool'.fifo[c].bits)
      BY <3>5 DEF Fifos
    <3>7. \A d \in Channels : pool'.fifo[d].head <= Len(pool'.fifo[d].bits)
      BY <2>3, <3>2, <3>6 DEF IInv, Queues
    <3> QED BY <2>1, <2>3, <3>7 DEF Queues
  <2> QED BY <2>2, <2>3
<1>9. CASE Enter \/ HandleLength \/ Leave \/ Panic \/ Reset
  BY <1>4, <1>9 DEF Enter, HandleLength, Leave, Panic, Reset
<1>10. CASE SrcBegin \/ Pass \/ PasswordDone \/ WaitBlock \/ Late \/ SrcRound \/ SrcWait
  <2>1. CASE WaitBlock
    <3>1. pc = "wait" /\ pc' \in {"absorb", "late"} /\ UNCHANGED <<pool, wiped>>
      BY <2>1 DEF WaitBlock, genVars
    <3> QED BY <3>1 DEF IInv, Queues
  <2>2. CASE SrcBegin \/ Pass \/ PasswordDone \/ Late \/ SrcRound \/ SrcWait
    BY <1>2, <2>2 DEF SrcBegin, SrcFrame, Pass, PasswordDone, Late, SrcRound, SrcWait, genVars, textVars, drawVars
  <2> QED BY <1>10, <2>1, <2>2
<1>11. CASE StartRound \/ Overrun
  BY <1>2, <1>11 DEF StartRound, Overrun, genVars, textVars, drawVars
<1>12. CASE BlockDone \/ Tick \/ UNCHANGED vars
  BY <1>3, <1>12 DEF BlockDone, Tick, vars, genVars, textVars, drawVars
<1> QED BY <1>5, <1>6, <1>7, <1>8, <1>9, <1>10, <1>11, <1>12, <1>13 DEF Next, User, Main

\* every step keeps what Fifo_Compact loaded that of the queue, as long as no
\* panic comes
LEMMA NextCompaction ==
  ASSUME IInv, [Next]_vars
  PROVE  Compaction'
<1>1. CASE pc' \notin Compacting /\ pc' # "overrun"
  BY <1>1 DEF Compaction, Compacting
<1>2. CASE UNCHANGED <<pc, sub, pool, noise, head, count, wiped>>
  BY <1>2 DEF IInv, Compaction, Waited
<1>3. CASE Absorb
  <2>1. PICK c \in Channels : c = Waited
    BY <1>3, AbsorbIs
  <2>2. pool'.fifo = pool.fifo /\ Len(noise'[c]) >= BlockSamples
    BY <1>3, <2>1, AbsorbFacts
  <2>3. pool.fifo[c].head <= Len(pool.fifo[c].bits)
    BY <1>3 DEF Absorb, IInv, Queues
  <2>4. Waited' = c
    BY <1>3, <2>1, AbsorbIs
  <2>5. \/ pc' = "fault"
        \/ pc' = "compactHead" /\ head' = pool.fifo[c].head
        \/ pc' = "compactCount" /\ count' = Len(pool.fifo[c].bits)
    BY <1>3, <2>1, AbsorbControl
  <2> QED BY <2>2, <2>3, <2>4, <2>5 DEF Compaction, Compacting
<1>4. CASE Overrun
  <2>1. pc \in Compacting /\ pc' = "overrun" /\ UNCHANGED wiped /\ Loaded.head > Len(Loaded.bits)
    BY <1>4 DEF Overrun, genVars, Compacting
  <2>2. wiped
    <3>1. SUFFICES ASSUME ~wiped PROVE FALSE
      OBVIOUS
    <3>2. Loaded.head <= Len(Loaded.bits) /\ Loaded \in Fifos
      BY <2>1, <3>1, LoadedIs
    <3> QED BY <2>1, <3>2 DEF Fifos
  <2> QED BY <2>1, <2>2 DEF Compaction, Compacting
<1>5. CASE Panic
  <2>1. UNCHANGED <<pc, sub, noise, head, count>> /\ wiped' /\ pool' = Entropy_Pool_Init
    BY <1>5 DEF Panic, drawVars, histVars
  <2>2. Waited' = Waited /\ Waited \in Channels
    BY <2>1 DEF Waited, Channels
  <2>3. pool'.fifo[Waited].head <= count
    <3>1. pool'.fifo[Waited].head = 0 /\ count \in 0..FifoCap /\ FifoCap \in Nat
      BY <2>1, <2>2, InitPool, Constants DEF IInv, TypeOK, DrawTypes
    <3> QED BY <3>1
  <2> QED BY <2>1, <2>2, <2>3 DEF IInv, Compaction
<1>6. CASE BlockDone \/ Tick \/ UNCHANGED vars
  BY <1>2, <1>6 DEF BlockDone, Tick, vars, genVars, drawVars, histVars
<1>7. CASE Enter \/ HandleLength \/ SrcBegin \/ Reset \/ Leave \/ Pass \/ ProduceChars \/ LoadBit \/ StoreHead
           \/ PasswordDone \/ StartRound \/ WaitBlock \/ Late \/ Debias \/ SrcRound \/ SrcWait
  BY <1>1, <1>7, DebiasControl DEF Enter, HandleLength, SrcBegin, Reset, Leave, Pass, ProduceChars, LoadBit, StoreHead,
     PasswordDone, StartRound, WaitBlock, Late, SrcRound, SrcWait, Compacting
<1> QED BY <1>3, <1>4, <1>5, <1>6, <1>7 DEF Next, User, Main

\* every step keeps a queue a rising sequence of this sampling's pairs
LEMMA NextGathered ==
  ASSUME IInv, [Next]_vars
  PROVE  Gathered'
<1> DEFINE Before    == sub \in {"away", "prompt"} => noise = Empty /\ used = Empty
           Even      == \A c \in Channels : Len(noise[c]) % 2 = 0
           Sorted(c) == Rising(pool.fifo[c].bits)
           Inside(c) == \A k \in 1..Len(pool.fifo[c].bits) : pool.fifo[c].bits[k] \in 1..Pairs(c)
<1>1. Before /\ Even /\ (~wiped => \A c \in Channels : Sorted(c) /\ Inside(c))
  BY DEF IInv, Gathered
<1>2. Before' /\ Even' /\ (~wiped' => \A c \in Channels : (Sorted(c) /\ Inside(c))') => Gathered'
  BY DEF Gathered
<1>3. CASE UNCHANGED <<pool, noise, used, wiped>> /\ (sub' \in {"away", "prompt"} => sub \in {"away", "prompt"})
           /\ (UNCHANGED <<pc, sub>> \/ (pc \notin Compacting /\ pc' \notin Compacting))
  <2>1. \A c : Pairs(c)' = Pairs(c)
    BY <1>3, SamePairs
  <2> QED BY <1>1, <1>2, <1>3, <2>1
<1>4. ASSUME pool' = Entropy_Pool_Init, Before', Even' PROVE Gathered'
  <2>1. \A c \in Channels : pool'.fifo[c].bits = <<>> /\ Len(pool'.fifo[c].bits) = 0
    BY <1>4, InitPool
  <2>2. ASSUME NEW c \in Channels PROVE Sorted(c)' /\ Inside(c)'
    <3>1. 1..Len(pool'.fifo[c].bits) = {}
      BY <2>1
    <3> QED BY <3>1 DEF Rising
  <2> QED BY <1>2, <1>4, <2>2
<1>5. CASE Leave \/ Reset
  <2>1. pool' = Entropy_Pool_Init /\ noise' = Empty /\ used' = Empty
    BY <1>5 DEF Leave, Reset
  <2>2. \A c \in Channels : Len(noise'[c]) = 0
    BY <2>1, EmptyIs
  <2>3. Even' /\ Before'
    <3>1. 0 % 2 = 0
      OBVIOUS
    <3> QED BY <2>1, <2>2, <3>1
  <2> QED BY <1>4, <2>1, <2>3
<1>6. CASE LoadBit
  <2>1. sub = "startRound" /\ UNCHANGED <<sub, pool, noise, wiped>> /\ pc \notin Compacting /\ pc' \notin Compacting
    BY <1>6 DEF LoadBit, genVars, IInv, Phase, Compacting
  <2>2. \A c : Pairs(c)' = Pairs(c)
    BY <2>1, SamePairs
  <2> QED BY <1>1, <1>2, <2>1, <2>2
<1>7. CASE StoreHead
  <2>0. PICK c \in Channels : c = BitChannel("light", i)
    BY StoreIs, <1>7
  <2>1. /\ c \in Channels /\ UNCHANGED <<wiped, sub, noise, used>>
        /\ pool'.fifo[c] = [bits |-> pool.fifo[c].bits, head |-> head + 1]
        /\ \A d \in Channels \ {c} : pool'.fifo[d] = pool.fifo[d]
    BY <1>7, <2>0, StoreIs
  <2>2. \A d \in Channels : pool'.fifo[d].bits = pool.fifo[d].bits
    BY <2>1
  <2>3. \A d : Pairs(d)' = Pairs(d)
    BY <1>7, <2>1, SamePairs DEF StoreHead, Compacting
  <2> QED BY <1>1, <1>2, <2>1, <2>2, <2>3
<1>8. CASE Absorb
  <2>1. pool'.fifo = pool.fifo /\ Even'
    BY <1>8, AbsorbFacts
  <2>2. \A c \in Channels : Pairs(c) \in Nat /\ Pairs(c)' \in Nat /\ Pairs(c) <= Pairs(c)'
    BY <1>8, AbsorbFacts, PairsAre
  <2>3. UNCHANGED <<wiped, sub>> /\ sub \in Waiting
    BY <1>8, AbsorbControl DEF genVars, IInv, Phase
  <2>4. Before'
    BY <2>3 DEF Waiting
  <2>5. ASSUME ~wiped, NEW c \in Channels PROVE (Sorted(c) /\ Inside(c))'
    <3>1. 1..Pairs(c) \subseteq 1..Pairs(c)'
      BY <2>2
    <3> QED BY <1>1, <2>1, <2>5, <3>1
  <2> QED BY <1>2, <2>1, <2>3, <2>4, <2>5
<1>11. CASE Debias
  <2>0. PICK c \in Channels : c = Waited
    BY <1>11, DebiasIs
  <2>1. /\ \A d \in Channels \ {c} : pool'.fifo[d] = pool.fifo[d]
        /\ \A d \in Channels : Pairs(d) \in Nat /\ Pairs(d)' \in Nat /\ Pairs(d) <= Pairs(d)'
        /\ Loaded \in Fifos /\ Loaded.head <= Len(Loaded.bits) /\ (~wiped => Loaded = pool.fifo[c])
    BY <1>11, <2>0, DebiasIs
  <2>2. PICK block \in Seq(Samples) :
          /\ pool'.fifo[c] = Absorbed(Loaded, block, Pairs(c) + 1)
          /\ Pairs(c)' = Pairs(c) + (Len(block) \div 2)
    BY <1>11, <2>0, DebiasIs
  <2>3. UNCHANGED <<wiped, noise, used>> /\ sub \in Waiting /\ sub' \in {"startRound", "waitLight"} \cup Waiting
    BY <1>11, DebiasControl DEF IInv, Phase, histVars
  <2>4. Before' /\ Even'
    BY <1>1, <2>3 DEF Waiting
  <2>5. ASSUME ~wiped, NEW d \in Channels, d # c PROVE (Sorted(d) /\ Inside(d))'
    <3>1. 1..Pairs(d) \subseteq 1..Pairs(d)'
      BY <2>1
    <3> QED BY <1>1, <2>1, <2>5, <3>1
  <2>6. ASSUME ~wiped PROVE (Sorted(c) /\ Inside(c))'
    <3>1. Within(Loaded.bits, 1, Pairs(c))
      <4>1. Sorted(c) /\ Inside(c) /\ Loaded = pool.fifo[c]
        BY <1>1, <2>1, <2>6
      <4> QED BY <4>1 DEF Within
    <3>2. Within(pool'.fifo[c].bits, 1, Pairs(c)')
      BY <2>1, <2>2, <3>1, AbsorbedQueue
    <3> QED BY <3>2 DEF Within
  <2> HIDE DEF Before, Even, Sorted, Inside
  <2> QED BY <1>2, <2>3, <2>4, <2>5, <2>6
<1>9. CASE Enter \/ HandleLength \/ Panic
  <2>1. pool' = Entropy_Pool_Init /\ UNCHANGED <<noise, used>>
        /\ (sub' \in {"away", "prompt"} => sub \in {"away", "prompt"})
    BY <1>9 DEF Enter, HandleLength, Panic, genVars, histVars
  <2>2. Before' /\ Even'
    BY <1>1, <2>1
  <2> QED BY <1>4, <2>1, <2>2
<1>10. CASE SrcBegin \/ Pass \/ ProduceChars \/ PasswordDone \/ WaitBlock \/ Late \/ SrcRound \/ SrcWait \/ StartRound
  BY <1>3, <1>10 DEF SrcBegin, SrcFrame, Pass, ProduceChars, PasswordDone, WaitBlock, Late, SrcRound, SrcWait,
     StartRound, NothingToProduce, genVars, histVars, Compacting
<1>12. CASE Overrun
  <2>1. wiped /\ UNCHANGED <<wiped, sub, noise, used>>
    <3>1. wiped'
      BY <1>12, NextCompaction DEF Overrun, Compaction
    <3> QED BY <1>12, <3>1 DEF Overrun, genVars, histVars
  <2> QED BY <1>1, <1>2, <2>1
<1>13. CASE BlockDone \/ Tick \/ UNCHANGED vars
  BY <1>3, <1>13 DEF BlockDone, Tick, vars, genVars, histVars
<1> QED BY <1>5, <1>6, <1>7, <1>8, <1>9, <1>10, <1>11, <1>12, <1>13 DEF Next, User, Main

\* every step keeps the bits that were taken before those that are left
LEMMA NextSpent ==
  ASSUME IInv, [Next]_vars
  PROVE  Spent'
<1> DEFINE Taken1(c) == Rising(used[c]) /\ \A k \in 1..Len(used[c]) : used[c][k] \in 1..Pairs(c)
           Left1(c)  == \A k \in 1..Len(used[c]) : \A m \in (Gone(c) + 1)..Len(pool.fifo[c].bits) :
                          used[c][k] < pool.fifo[c].bits[m]
<1>1. Spent <=> (~wiped => \A c \in Channels : Taken1(c) /\ Left1(c))
  BY DEF Spent
<1>2. Spent' <=> (~wiped' => \A c \in Channels : Taken1(c)' /\ Left1(c)')
  BY DEF Spent
<1>3. Spent
  BY DEF IInv
<1>4. CASE wiped'
  BY <1>4 DEF Spent
<1>5. CASE used' = Empty
  <2>1. \A c \in Channels : Len(used'[c]) = 0
    BY <1>5, EmptyIs
  <2> QED BY <1>2, <2>1 DEF Rising
<1>6. CASE UNCHANGED <<pool, noise, used, wiped>> /\ (pc = "store" <=> pc' = "store") /\ (pc' = "store" => i' = i)
           /\ (UNCHANGED <<pc, sub>> \/ (pc \notin Compacting /\ pc' \notin Compacting))
  <2>1. \A c : Gone(c)' = Gone(c) /\ Pairs(c)' = Pairs(c)
    BY <1>6, SamePairs DEF Gone
  <2> QED BY <1>1, <1>2, <1>3, <1>6, <2>1
<1>7. CASE LoadBit
  <2> SUFFICES ASSUME ~wiped' PROVE Spent'
    BY <1>4
  <2>0. PICK c \in Channels : c = BitChannel("light", i)
    BY <1>7, TakenIs DEF LoadBit
  <2> DEFINE b == pool.fifo[c].bits
             h == pool.fifo[c].head
             u == used[c]
  <2>1. pc = "load" /\ pc' = "store" /\ UNCHANGED <<pool, noise, wiped, drawBits, i>>
        /\ used' = [used EXCEPT ![c] = Append(@, Taken)]
    BY <1>7, <2>0 DEF LoadBit, genVars, textVars
  <2>2. c \in Channels /\ Taken \in Nat /\ (h < Len(b) => Taken = b[h + 1])
    BY <2>0, <2>1, TakenIs
  <2>3. pool \in Pools /\ used \in [Channels -> Seq(Nat)]
    BY DEF IInv, TypeOK, PoolTypes, HistTypes
  <2>4. b \in Seq(Nat) /\ h \in Nat /\ u \in Seq(Nat) /\ Len(b) \in Nat /\ Len(u) \in Nat
    BY <2>2, <2>3, PoolFields
  <2>5. h < Len(b)
    <3>1. i \in Nat /\ drawBits \in Nat /\ i < drawBits
      BY <2>1, Constants DEF IInv, TypeOK, DrawTypes, TextTypes, Drawing
    <3>2. h + Need(c, i) <= Len(b)
      BY <2>1, <2>2 DEF IInv, Queues
    <3>3. Need(c, i) = Need(c, i + 1) + 1 /\ Need(c, i + 1) \in Nat
      BY <2>0, <3>1, NeedStep
    <3> DEFINE k == Need(c, i + 1)
    <3> HIDE DEF k, b, h
    <3>4. h + (k + 1) <= Len(b) /\ k \in Nat
      BY <3>2, <3>3 DEF k
    <3> QED BY <2>4, <3>4
  <2>6. /\ \A k \in 1..Len(b) : b[k] \in 1..Pairs(c) /\ \A j \in 1..(k - 1) : b[j] < b[k]
        /\ Pairs(c) \in Nat
    BY <2>1, <2>2, PairsAre DEF IInv, Gathered, Rising
  <2>24. \A d : Pairs(d)' = Pairs(d)
    BY <2>1, SamePairs DEF Compacting
  <2>7. Gone(c) = h /\ Gone(c)' = h + 1 /\ \A d \in Channels \ {c} : Gone(d)' = Gone(d)
    BY <2>0, <2>1, <2>2, <2>4 DEF Gone
  <2>8. \A d \in Channels : Taken1(d) /\ Left1(d)
    BY <1>1, <1>3, <2>1
  <2>9. used'[c] = Append(u, Taken) /\ \A d \in Channels \ {c} : used'[d] = used[d]
    BY <2>1, <2>2, <2>3
  <2>10. \A d \in Channels \ {c} : Taken1(d)' /\ Left1(d)'
    <3>1. \A d \in Channels \ {c} : used'[d] = used[d] /\ Gone(d)' = Gone(d)
      BY <2>7, <2>9
    <3> QED BY <2>1, <2>8, <2>24, <3>1
  <2>11. \A k \in 1..Len(u) : \A m \in (h + 1)..Len(b) : u[k] < b[m]
    BY <2>2, <2>7, <2>8
  <2>12. Rising(u) /\ \A k \in 1..Len(u) : u[k] \in 1..Pairs(c)
    BY <2>2, <2>8
  <2> HIDE DEF b, h, u
  <2>13. h + 1 \in 1..Len(b) /\ h + 1 \in (h + 1)..Len(b) /\ Taken = b[h + 1]
    BY <2>2, <2>4, <2>5
  <2>14. Taken \in 1..Pairs(c)
    BY <2>6, <2>13
  <2>15. Within(u, 1, Taken - 1)
    <3>1. \A k \in 1..Len(u) : u[k] < Taken
      BY <2>11, <2>13
    <3>2. \A k \in 1..Len(u) : u[k] \in 1..(Taken - 1)
      BY <2>6, <2>12, <2>14, <3>1
    <3> QED BY <2>12, <3>2 DEF Within
  <2>16. Within(Append(u, Taken), 1, Taken) /\ Append(u, Taken) \in Seq(Nat)
    <3> DEFINE hi == Taken - 1
    <3>1. hi \in Int /\ hi < Taken /\ 1 <= Taken /\ Taken \in Nat /\ 1 \in Nat /\ Within(u, 1, hi)
      BY <2>2, <2>14, <2>15
    <3> HIDE DEF hi
    <3> QED BY <2>4, <3>1, AppendWithin, Zenon
  <2> DEFINE v == Append(u, Taken)
  <2>17. Rising(v) /\ \A k \in 1..Len(v) : v[k] \in 1..Taken
    BY <2>16, Zenon DEF Within
  <2> HIDE DEF v
  <2>18. \A m \in (h + 2)..Len(b) : Taken < b[m]
    <3>1. ASSUME NEW m \in (h + 2)..Len(b) PROVE Taken < b[m]
      <4>1. m \in 1..Len(b) /\ h + 1 \in 1..(m - 1)
        BY <2>4
      <4> QED BY <2>6, <2>13, <4>1
    <3> QED BY <3>1
  <2>19. \A k \in 1..Len(v) : v[k] \in 1..Pairs(c)
    BY <2>2, <2>6, <2>14, <2>17
  <2>20. ASSUME NEW k \in 1..Len(v), NEW m \in (h + 1 + 1)..Len(b) PROVE v[k] < b[m]
    <3>1. m \in (h + 2)..Len(b) /\ m \in 1..Len(b)
      BY <2>4
    <3>2. Taken < b[m] /\ v[k] \in 1..Taken /\ b[m] \in Nat
      BY <2>6, <2>17, <2>18, <3>1
    <3> QED BY <2>2, <3>2
  <2>21. used'[c] = v
    BY <2>9 DEF v
  <2>22. Taken1(c)'
    BY <2>1, <2>17, <2>19, <2>21, <2>24
  <2>23. Left1(c)'
    BY <2>1, <2>7, <2>20, <2>21 DEF b
  <2> HIDE DEF Taken1, Left1
  <2> QED BY <1>2, <2>10, <2>22, <2>23
<1>8. CASE StoreHead
  <2> SUFFICES ASSUME ~wiped' PROVE Spent'
    BY <1>4
  <2>0. PICK c \in Channels : c = BitChannel("light", i)
    BY StoreIs, <1>8
  <2>1. /\ pc = "store" /\ c \in Channels /\ UNCHANGED <<wiped, noise, used>>
        /\ pool'.fifo[c] = [bits |-> pool.fifo[c].bits, head |-> head + 1]
        /\ \A d \in Channels \ {c} : pool'.fifo[d] = pool.fifo[d]
    BY <1>8, <2>0, StoreIs
  <2>2. pc' # "store"
    BY <1>8 DEF StoreHead
  <2>3. head = pool.fifo[c].head
    BY <2>0, <2>1 DEF IInv, Drawing
  <2>4. pool'.fifo[c].head = head + 1 /\ \A d \in Channels : pool'.fifo[d].bits = pool.fifo[d].bits
    BY <2>1
  <2>5. \A d \in Channels : pool.fifo[d].head \in Nat
    BY PoolFields DEF IInv, TypeOK, PoolTypes
  <2>6. ASSUME NEW d \in Channels PROVE Gone(d)' = Gone(d)
    <3>1. CASE d = c
      <4>1. Gone(d) = pool.fifo[d].head + 1
        BY <2>0, <2>1, <3>1 DEF Gone
      <4>2. Gone(d)' = pool'.fifo[d].head + 0
        BY <2>2 DEF Gone
      <4>3. pool'.fifo[d].head = pool.fifo[d].head + 1 /\ pool.fifo[d].head \in Nat
        BY <2>3, <2>4, <2>5, <3>1
      <4> QED BY <4>1, <4>2, <4>3
    <3>2. CASE d # c
      <4>1. Gone(d) = pool.fifo[d].head + 0
        BY <2>0, <3>2 DEF Gone
      <4>2. Gone(d)' = pool'.fifo[d].head + 0
        BY <2>2 DEF Gone
      <4> QED BY <2>1, <3>2, <4>1, <4>2
    <3> QED BY <3>1, <3>2
  <2>7. \A d \in Channels : Taken1(d) /\ Left1(d)
    BY <1>1, <1>3, <2>1
  <2>8. \A d : Pairs(d)' = Pairs(d)
    BY <2>1, <2>2, SamePairs, <1>8 DEF StoreHead, Compacting
  <2> QED BY <1>2, <2>1, <2>4, <2>6, <2>7, <2>8
<1>9. CASE Absorb
  <2> SUFFICES ASSUME ~wiped' PROVE Spent'
    BY <1>4
  <2>1. pool'.fifo = pool.fifo /\ \A d \in Channels : Pairs(d) \in Nat /\ Pairs(d)' \in Nat /\ Pairs(d) <= Pairs(d)'
    BY <1>9, AbsorbFacts, PairsAre
  <2>2. ~wiped /\ used' = used /\ pc # "store" /\ pc' # "store"
    BY <1>9, AbsorbControl DEF genVars
  <2>3. \A d : Gone(d)' = Gone(d)
    BY <2>1, <2>2 DEF Gone
  <2>4. ASSUME NEW d \in Channels PROVE Taken1(d)' /\ Left1(d)'
    <3>1. Taken1(d) /\ Left1(d)
      BY <1>1, <1>3, <2>2
    <3>2. 1..Pairs(d) \subseteq 1..Pairs(d)'
      BY <2>1
    <3> QED BY <2>1, <2>2, <2>3, <3>1, <3>2
  <2> HIDE DEF Taken1, Left1
  <2> QED BY <1>2, <2>4
<1>14. CASE Debias
  <2> SUFFICES ASSUME ~wiped' PROVE Spent'
    BY <1>4
  <2>0. PICK c \in Channels : c = Waited
    BY <1>14, DebiasIs
  <2>1. ~wiped /\ used' = used /\ pc # "store" /\ pc' # "store"
    BY <1>14, DebiasControl DEF histVars, Compacting
  <2>2. /\ \A d \in Channels \ {c} : pool'.fifo[d] = pool.fifo[d]
        /\ \A d \in Channels : Pairs(d) \in Nat /\ Pairs(d)' \in Nat /\ Pairs(d) <= Pairs(d)'
        /\ Loaded \in Fifos /\ Loaded.head <= Len(Loaded.bits) /\ Loaded = pool.fifo[c] /\ pool' \in Pools
    BY <1>14, <2>0, <2>1, DebiasIs
  <2>3. PICK block \in Seq(Samples) : pool'.fifo[c] = Absorbed(Loaded, block, Pairs(c) + 1)
    BY <1>14, <2>0, DebiasIs
  <2>4. \A d \in Channels : Taken1(d) /\ Left1(d)
    BY <1>1, <1>3, <2>1
  <2>5. \A d \in Channels : Gone(d) = pool.fifo[d].head /\ pool.fifo[d].head \in Nat
    <3>1. \A d \in Channels : pool.fifo[d].head \in Nat
      BY PoolFields DEF IInv, TypeOK, PoolTypes
    <3>2. \A d : Gone(d) = pool.fifo[d].head + 0
      BY <2>1 DEF Gone
    <3> QED BY <3>1, <3>2
  <2>6. ASSUME NEW d \in Channels PROVE Taken1(d)'
    <3>1. 1..Pairs(d) \subseteq 1..Pairs(d)'
      BY <2>2
    <3> QED BY <2>1, <2>4, <3>1
  <2>7. ASSUME NEW d \in Channels, d # c PROVE Left1(d)'
    <3>1. Gone(d)' = Gone(d)
      BY <2>1, <2>2, <2>7 DEF Gone
    <3> QED BY <2>1, <2>2, <2>4, <2>7, <3>1
  <2>8. Left1(c)'
    <3>1. Within(Loaded.bits, 1, Pairs(c))
      BY <2>1, <2>2 DEF IInv, Gathered, Within
    <3>2. \A k \in 1..Len(pool'.fifo[c].bits) :
             \/ \E m \in (Loaded.head + 1)..Len(Loaded.bits) : pool'.fifo[c].bits[k] = Loaded.bits[m]
             \/ pool'.fifo[c].bits[k] > Pairs(c)
      BY <2>2, <2>3, <3>1, AbsorbedQueue
    <3>3. pool'.fifo[c].bits \in Seq(Nat) /\ pool'.fifo[c].head = 0
      <4>1. Pairs(c) + 1 \in Nat \ {0}
        BY <2>2
      <4> QED BY <2>2, <2>3, <4>1, AbsorbedTypes, PoolFields
    <3>4. ASSUME NEW k \in 1..Len(used[c]), NEW m \in 1..Len(pool'.fifo[c].bits)
          PROVE  used[c][k] < pool'.fifo[c].bits[m]
      <4>1. used[c][k] \in 1..Pairs(c)
        BY <2>4
      <4>2. CASE pool'.fifo[c].bits[m] > Pairs(c)
        <5>1. pool'.fifo[c].bits[m] \in Nat
          BY <3>3
        <5> QED BY SMTT(30), <2>2, <4>1, <4>2, <5>1
      <4>3. ASSUME NEW j \in (Loaded.head + 1)..Len(Loaded.bits), pool'.fifo[c].bits[m] = Loaded.bits[j]
            PROVE  used[c][k] < pool'.fifo[c].bits[m]
        <5>1. j \in (Gone(c) + 1)..Len(pool.fifo[c].bits)
          BY <2>2, <2>5
        <5> QED BY <2>2, <2>4, <4>3, <5>1
      <4> QED BY <3>2, <4>2, <4>3
    <3>5. Gone(c)' = 0
      <4>1. Gone(c)' = pool'.fifo[c].head + 0
        BY <2>1 DEF Gone
      <4> QED BY <3>3, <4>1
    <3> QED BY <2>1, <3>4, <3>5
  <2> HIDE DEF Taken1, Left1
  <2> QED BY <1>2, <2>6, <2>7, <2>8
<1>10. CASE Enter \/ HandleLength
  <2>1. sub \in {"away", "prompt"} /\ used' = used
    BY <1>10 DEF Enter, HandleLength, histVars
  <2> QED BY <1>5, <2>1 DEF IInv, Gathered
<1>11. CASE Leave \/ Reset
  BY <1>5, <1>11 DEF Leave, Reset
<1>12. CASE Panic
  BY <1>4, <1>12 DEF Panic
<1>13. CASE SrcBegin \/ Pass \/ ProduceChars \/ PasswordDone \/ WaitBlock \/ Late \/ SrcRound \/ SrcWait \/ StartRound
  BY <1>6, <1>13 DEF SrcBegin, SrcFrame, Pass, ProduceChars, PasswordDone, WaitBlock, Late, SrcRound, SrcWait,
     StartRound, NothingToProduce, genVars, histVars, drawVars, Compacting
<1>15. CASE BlockDone \/ Tick \/ UNCHANGED vars
  BY <1>6, <1>15 DEF BlockDone, Tick, vars, genVars, histVars, drawVars
<1>16. CASE Overrun
  BY <1>4, <1>16, NextCompaction DEF Overrun, Compaction
<1> QED BY <1>7, <1>8, <1>9, <1>10, <1>11, <1>12, <1>13, <1>14, <1>15, <1>16 DEF Next, User, Main

\* every step keeps the tests' states true of the samples absorbed
LEMMA NextTested ==
  ASSUME IInv, [Next]_vars
  PROVE  Tested'
<1> DEFINE Good(c) == Describes(pool.health[c], noise[c], Len(noise[c])) /\ Healthy(noise[c], Len(noise[c]))
<1>1. Tested <=> (~wiped /\ pc # "fault" => \A c \in Channels : Good(c))
  BY DEF Tested
<1>2. Tested' <=> (~wiped' /\ pc' # "fault" => \A c \in Channels : Good(c)')
  BY DEF Tested
<1>3. Tested
  BY DEF IInv
<1>4. CASE wiped' \/ pc' = "fault"
  BY <1>4 DEF Tested
<1>5. CASE pool' = Entropy_Pool_Init /\ noise' = Empty
  <2>1. \A c \in Channels : pool'.health[c] = RNG_Health_Init /\ Len(noise'[c]) = 0
    BY <1>5, InitPool, EmptyIs
  <2>2. RctCutoff \in Nat /\ RctCutoff > 0
    BY CutoffsAssumption
  <2>3. \A c \in Channels : Describes(pool'.health[c], noise'[c], Len(noise'[c]))
    BY <2>1, Zenon DEF Describes
  <2>4. \A c \in Channels : Healthy(noise'[c], Len(noise'[c]))
    BY <2>1, <2>2 DEF Healthy
  <2> QED BY <1>2, <2>3, <2>4
<1>6. CASE pool'.health = pool.health /\ UNCHANGED <<noise, wiped>> /\ pc # "fault"
  BY <1>1, <1>2, <1>3, <1>6
<1>7. CASE UNCHANGED <<pool, noise, wiped, pc>>
  BY <1>1, <1>2, <1>3, <1>7
<1>8. CASE StoreHead
  <2>1. pool'.health = pool.health /\ UNCHANGED <<noise, wiped>> /\ pc = "store"
    BY <1>8, StoreIs
  <2> QED BY <1>6, <2>1
<1>9. CASE Absorb
  <2> SUFFICES ASSUME ~wiped', pc' # "fault" PROVE Tested'
    BY <1>4
  <2>0. PICK c \in Channels : c = Waited
    BY AbsorbIs, <1>9
  <2>1. PICK block \in Blocks :
          /\ TestsBlock(c, block) /\ block \in Seq(Samples)
          /\ noise'[c] = noise[c] \o block
          /\ \A d \in Channels \ {c} : noise'[d] = noise[d]
          /\ pool'.health[c] = HealthAfter(pool.health[c], block)
          /\ \A d \in Channels \ {c} : pool'.health[d] = pool.health[d]
    BY <1>9, <2>0, AbsorbFacts
  <2>2. pc = "absorb" /\ ~wiped
    BY <1>9, AbsorbControl DEF genVars
  <2>3. BlockOk(pool.health[c], block)
    BY <2>1 DEF TestsBlock
  <2>4. pool \in Pools /\ noise[c] \in Seq(Samples)
    BY DEF IInv, TypeOK, PoolTypes, HistTypes
  <2>6. \A d \in Channels : Good(d)
    BY <1>1, <1>3, <2>2
  <2>7. pool.health[c] \in Healths
    BY <2>4, PoolFields
  <2> DEFINE h == pool.health[c]
             s == noise[c]
  <2>8. Describes(h, s, Len(s)) /\ Healthy(s, Len(s)) /\ h \in Healths /\ s \in Seq(Samples) /\ BlockOk(h, block)
    BY <2>3, <2>4, <2>6, <2>7
  <2> HIDE DEF h, s
  <2>9. /\ Describes(HealthAfter(h, block), s \o block, Len(s \o block))
        /\ Healthy(s \o block, Len(s \o block))
    BY <2>1, <2>8, TestBlock, Zenon
  <2>10. Good(c)'
    BY <2>1, <2>9 DEF h, s
  <2>11. ASSUME NEW d \in Channels, d # c PROVE Good(d)'
    <3>1. pool'.health[d] = pool.health[d] /\ noise'[d] = noise[d]
      BY <2>1, <2>11
    <3> QED BY <2>6, <3>1
  <2> HIDE DEF Good
  <2> QED BY <1>2, <2>10, <2>11
<1>15. CASE Debias
  <2>1. pool'.health = pool.health /\ UNCHANGED <<noise, wiped>> /\ pc # "fault"
    BY <1>15, DebiasIs, DebiasControl DEF histVars, Compacting
  <2> QED BY <1>6, <2>1
<1>10. CASE Enter \/ HandleLength
  <2>1. sub \in {"away", "prompt"} /\ noise' = noise /\ pool' = Entropy_Pool_Init
    BY <1>10 DEF Enter, HandleLength, histVars
  <2> QED BY <1>5, <2>1 DEF IInv, Gathered
<1>11. CASE Leave \/ Reset
  BY <1>5, <1>11 DEF Leave, Reset
<1>12. CASE Panic
  BY <1>4, <1>12 DEF Panic
<1>13. CASE SrcBegin \/ Pass \/ ProduceChars \/ LoadBit \/ PasswordDone \/ WaitBlock \/ Late \/ SrcRound \/ SrcWait
            \/ StartRound \/ Overrun
  BY <1>6, <1>13 DEF Overrun, SrcBegin, SrcFrame, Pass, ProduceChars, LoadBit, PasswordDone, WaitBlock, Late, SrcRound, SrcWait,
     StartRound, NothingToProduce, genVars, histVars
<1>14. CASE BlockDone \/ Tick \/ UNCHANGED vars
  BY <1>7, <1>14 DEF BlockDone, Tick, vars, genVars, histVars
<1> QED BY <1>8, <1>9, <1>10, <1>11, <1>12, <1>13, <1>14, <1>15 DEF Next, User, Main

-----------------------------------------------------------------------------
(* Theorems. *)

\* every step keeps the invariant of the sampling
LEMMA NextIInv == IInv /\ [Next]_vars => IInv'
<1> SUFFICES ASSUME IInv, [Next]_vars
             PROVE  IInv'
  OBVIOUS
<1>1. MainTypes' /\ PoolTypes' /\ TextTypes' /\ AdcTypes' /\ HistTypes'
  BY NextMainTypes, NextPoolTypes, NextTextTypes, NextConverter, NextHistTypes
<1>2. Phase' /\ Converter' /\ Drawing' /\ Queues' /\ Compaction'
  BY NextPhase, NextConverter, NextDrawing, NextQueues, NextCompaction
<1>3. DrawTypes'
  BY <1>1, <1>2, NextDrawTypes
<1>4. Gathered' /\ Spent' /\ Tested'
  BY NextGathered, NextSpent, NextTested
<1> QED BY <1>1, <1>2, <1>3, <1>4 DEF IInv, TypeOK

\* The invariant of the sampling holds of every behaviour.
THEOREM SamplingInv == Spec => []IInv
BY InitIInv, NextIInv, PTL DEF Spec

\* Sampling's variables keep their types: no queue holds more than FifoCap
\* bits, no wait counts past its timeout, and no draw has more than
\* MaxDrawBits bits, however many blocks, draws and panics there are.
THEOREM SamplingTypes == Spec => []TypeOK
<1>1. IInv => TypeOK
  BY DEF IInv
<1> QED BY <1>1, SamplingInv, PTL

\* StepSampling absorbs, and GetBytes reads, only the block that it waits
\* for, and only when the converter has filled it.
THEOREM BlocksAreWhole == Spec => []BlockIsWhole
<1>1. IInv => BlockIsWhole
  <2> SUFFICES ASSUME IInv
               PROVE  BlockIsWhole
    OBVIOUS
  <2>1. pc \in {"absorb", "compactHead", "compactCount"} => ~busy /\ buf = "gen" /\ chan = Waited
    BY DEF IInv, Phase, Converter, Compacting
  <2>2. (pc = "srcTemp" \/ pc = "srcLight") /\ ready =>
          ~busy /\ buf = "src" /\ chan = (IF pc = "srcTemp" THEN "temp" ELSE "light")
    BY DEF IInv, Converter
  <2> QED BY <2>1, <2>2 DEF BlockIsWhole
<1> QED BY <1>1, SamplingInv, PTL

\* The bits of a password are distinct, in order and of the noise that was
\* absorbed, for every length of the queues and any number of blocks.
THEOREM EachBitOnce == Spec => []NoiseIsUsedOnce
<1>1. IInv => NoiseIsUsedOnce
  <2> SUFFICES ASSUME IInv, sub = "save", ~wiped, NEW c \in Channels, NEW k \in DOMAIN used[c]
               PROVE  used[c][k] # Zeroed /\ (k > 1 => used[c][k - 1] < used[c][k])
    BY DEF NoiseIsUsedOnce
  <2>1. used[c] \in Seq(Nat)
    BY DEF IInv, TypeOK, HistTypes
  <2>2. k \in 1..Len(used[c])
    BY <2>1
  <2>3. used[c][k] \in 1..Pairs(c) /\ Rising(used[c])
    BY <2>2 DEF IInv, Spent
  <2>4. used[c][k] # Zeroed
    BY <2>3 DEF Zeroed
  <2>5. ASSUME k > 1 PROVE used[c][k - 1] < used[c][k]
    <3>1. k - 1 \in 1..(k - 1)
      BY <2>2, <2>5
    <3> QED BY <2>2, <2>3, <3>1 DEF Rising
  <2> QED BY <2>4, <2>5
<1> QED BY <1>1, SamplingInv, PTL

\* The two continuous tests, a sample at a time and with a counter each,
\* let no bad run and no bad window of samples into a password, wherever the blocks
\* divide the samples, for every cutoff and every window.
THEOREM OnlyHealthyNoise == Spec => []NoiseIsHealthy
<1>1. IInv => NoiseIsHealthy
  <2> SUFFICES ASSUME IInv, sub = "save", ~wiped
               PROVE  NoiseIsHealthy
    BY DEF NoiseIsHealthy
  <2>1. pc # "fault"
    BY DEF IInv, Phase, Waiting
  <2>2. \A c \in Channels : Healthy(noise[c], Len(noise[c]))
    BY <2>1 DEF IInv, Tested
  <2> QED BY <2>2 DEF NoiseIsHealthy, Healthy, Alike, WindowEnd
<1> QED BY <1>1, SamplingInv, PTL

\* Fifo_TakeBit stays below the count of its queue unless a panic tears a
\* draw, and the difference that Fifo_Compact moves is below zero only when
\* a panic comes after its load of head and before that of count.
THEOREM QueuesInside == Spec => []QueuesStayInside
<1>1. IInv => QueuesStayInside
  <2> SUFFICES ASSUME IInv
               PROVE  QueuesStayInside
    OBVIOUS
  <2>1. ASSUME pc = "load", ~wiped, NEW c \in Channels, c = BitChannel("light", i)
        PROVE  pool.fifo[c].head < Len(pool.fifo[c].bits)
    <3>1. i \in Nat /\ drawBits \in Nat /\ i < drawBits
      BY <2>1, Constants DEF IInv, TypeOK, DrawTypes, TextTypes, Drawing
    <3>2. Need(c, i) = Need(c, i + 1) + 1 /\ Need(c, i + 1) \in Nat
      BY <2>1, <3>1, NeedStep
    <3>3. pool.fifo[c].head + Need(c, i) <= Len(pool.fifo[c].bits)
      BY <2>1 DEF IInv, Queues
    <3>4. pool.fifo[c].head \in Nat /\ pool.fifo[c].bits \in Seq(Nat)
      BY PoolFields DEF IInv, TypeOK, PoolTypes
    <3> DEFINE k == Need(c, i + 1)
               h == pool.fifo[c].head
               n == Len(pool.fifo[c].bits)
    <3>5. h \in Nat /\ n \in Nat /\ k \in Nat /\ h + (k + 1) <= n
      BY <3>2, <3>3, <3>4
    <3> HIDE DEF h, n, k
    <3>6. h < n
      BY <3>5
    <3> QED BY <3>6 DEF h, n
  <2>2. pc = "absorb" => \A c \in Channels : pool.fifo[c].head <= Len(pool.fifo[c].bits)
    BY DEF IInv, Queues
  <2>3. /\ pc = "compactHead" /\ ~wiped => Loaded.head <= Len(Loaded.bits)
        /\ pc = "compactCount" => Loaded.head <= Len(Loaded.bits)
    BY LoadedIs DEF Compacting
  <2>4. pc = "overrun" => wiped
    BY DEF IInv, Compaction
  <2> QED BY <2>1, <2>2, <2>3, <2>4, Turns DEF QueuesStayInside
<1> QED BY <1>1, SamplingInv, PTL

\* Entropy_Pool_DrawBits finds, for every range that fits, a number of bits
\* with equally likely values at the least cost per accepted draw.
THEOREM FairAndCheap == Spec => []DrawsAreFairAndCheap
<1>1. DrawsAreFairAndCheap
  <2> SUFFICES ASSUME NEW range \in 1..Span[MaxDrawBits]
               PROVE  LET b      == Entropy_Pool_DrawBits(range)
                          accept == AcceptBelow(range, b)
                      IN  /\ accept > 0 /\ accept % range = 0 /\ Span[b] - accept < range
                          /\ \A a \in 1..MaxDrawBits : Span[a] >= range =>
                               \/ b * Span[b] * AcceptBelow(range, a) < a * Span[a] * accept
                               \/ b * Span[b] * AcceptBelow(range, a) = a * Span[a] * accept /\ b <= a
    BY Zenon DEF DrawsAreFairAndCheap
  <2>1. PICK b : b = Entropy_Pool_DrawBits(range)
    OBVIOUS
  <2>2. /\ b \in 1..MaxDrawBits /\ range <= Span[b]
        /\ \A a \in 1..MaxDrawBits : range <= Span[a] => Better(range, b, a)
    BY <2>1, BestBits
  <2>3. /\ Span \in [0..MaxDrawBits -> Nat \ {0}] /\ MaxDrawBits \in Nat
    BY SpanDef, Constants
  <2>4. range \in Nat \ {0} /\ b \in 0..MaxDrawBits
    BY <2>2, <2>3
  <2>5. /\ AcceptBelow(range, b) \in 1..Span[b] /\ AcceptBelow(range, b) % range = 0
        /\ Span[b] - AcceptBelow(range, b) < range
    BY <2>2, <2>4, Accepted
  <2>6. AcceptBelow(range, b) > 0
    BY <2>3, <2>4, <2>5
  <2>7. ASSUME NEW a \in 1..MaxDrawBits, Span[a] >= range
        PROVE  \/ b * Span[b] * AcceptBelow(range, a) < a * Span[a] * AcceptBelow(range, b)
               \/ b * Span[b] * AcceptBelow(range, a) = a * Span[a] * AcceptBelow(range, b) /\ b <= a
    <3>1. range <= Span[a]
      BY <2>3, <2>4, <2>7
    <3>2. Better(range, b, a)
      BY <2>2, <3>1
    <3> QED BY <3>2, Zenon DEF Better, Cost
  <2> QED BY <2>1, <2>5, <2>6, <2>7
<1> QED BY <1>1, PTL
=============================================================================

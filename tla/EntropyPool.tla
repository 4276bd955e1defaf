---------------------------- MODULE EntropyPool -----------------------------
(***************************************************************************)
(* entropy_pool.c: samples of two noise channels become unbiased bits in   *)
(* two queues, and draws take bits from them in turn.                      *)
(*                                                                         *)
(* A bit in a queue is named by the pair of samples it came from, counted  *)
(* from 1; 0 is a bit of memory that was zeroed.                           *)
(***************************************************************************)
EXTENDS RngHealth, Integers, Sequences

CONSTANTS
  FifoCap,      \* ENTROPY_FIFO_CAP
  MaxDrawBits   \* ENTROPY_MAX_DRAW_BITS

\* the counts of a queue have 16 bits
Counts == 2^16

ASSUME PoolAssumption == FifoCap \in Nat /\ FifoCap < Counts /\ MaxDrawBits \in Nat \ {0}

Channels == {"temp", "light"}
Zeroed   == 0

\* bits that were written since the queue was last compacted, the first
\* head of them taken; count is Len(bits)
EmptyFifo == [bits |-> <<>>, head |-> 0]

Fifos == [bits : Seq(Nat), head : Nat]

Pools == [fifo : [Channels -> Fifos], health : [Channels -> Healths]]

Entropy_Pool_Init == [fifo |-> [c \in Channels |-> EmptyFifo], health |-> [c \in Channels |-> RNG_Health_Init]]

\* count - head in 16 bits: a head past a count that was zeroed wraps
Fifo_Available(fifo) == (Len(fifo.bits) + Counts - fifo.head) % Counts

\* mutant: the head is reset and the bits are not moved
Fifo_CompactInPlace(fifo) == [bits |-> SubSeq(fifo.bits, 1, Len(fifo.bits) - fifo.head), head |-> 0]

Fifo_Compact(fifo) == [bits |-> SubSeq(fifo.bits, fifo.head + 1, Len(fifo.bits)), head |-> 0]

-----------------------------------------------------------------------------
(* Entropy_Pool_Absorb(pool, c, block): every sample is tested, and one bad  *)
(* sample drops the block.  first is the number of the block's first pair.  *)

\* the test's state after each number of samples
HealthPath(h, block) ==
  LET after[k \in 0..Len(block)] == IF k = 0 THEN h ELSE RNG_Health_Next(after[k - 1], block[k])
  IN  after

HealthAfter(h, block) == HealthPath(h, block)[Len(block)]

BlockOk(h, block) ==
  LET after == HealthPath(h, block)
  IN  \A k \in 1..Len(block) : RNG_Health_Ok(after[k - 1], block[k])

\* only the lowest bit of a sample is harvested
LowBit(x) == x % 2

PairYields(x, y) == LowBit(x) # LowBit(y)

\* Von Neumann: the pairs whose two bits differ
DebiasedPairs(block, first) ==
  LET pairs[k \in 0..(Len(block) \div 2)] ==
        IF k = 0 THEN <<>>
        ELSE IF PairYields(block[2 * k - 1], block[2 * k]) THEN Append(pairs[k - 1], first + k - 1)
        ELSE pairs[k - 1]
  IN  pairs[Len(block) \div 2]

\* bits past the end of the queue are dropped
Absorbed(fifo, block, first) ==
  LET bits == Fifo_Compact(fifo).bits \o DebiasedPairs(block, first)
      kept == IF Len(bits) < FifoCap THEN Len(bits) ELSE FifoCap
  IN  [bits |-> SubSeq(bits, 1, kept), head |-> 0]

-----------------------------------------------------------------------------
(* Entropy_Pool_TakeBits(pool, n, first): the channels take turns, beginning *)
(* with first.                                                              *)

Other(c) == IF c = "temp" THEN "light" ELSE "temp"

BitChannel(first, i) == IF i % 2 = 0 THEN first ELSE Other(first)

\* mutant: only the first channel is asked
EnoughFirst(pool, n, first) == Fifo_Available(pool.fifo[first]) >= (n + 1) \div 2

Enough(pool, n, first) ==
  /\ Fifo_Available(pool.fifo[first]) >= (n + 1) \div 2
  /\ Fifo_Available(pool.fifo[Other(first)]) >= n \div 2

\* the bit at the head; past the count there are zeroes after a wipe, as long
\* as the head stays inside the array
HeadBit(fifo) == IF fifo.head < Len(fifo.bits) THEN fifo.bits[fifo.head + 1] ELSE Zeroed

-----------------------------------------------------------------------------
(* Entropy_Pool_DrawBits(range).                                            *)

\* the values that b bits have
Span[b \in 0..MaxDrawBits] == IF b = 0 THEN 1 ELSE 2 * Span[b - 1]

\* the largest multiple of range that fits in b bits
AcceptBelow(range, b) == (Span[b] \div range) * range

\* mutant: the number of bits is left out of the comparison
CheaperSpan(range, b, best) == Span[b] * AcceptBelow(range, best) < Span[best] * AcceptBelow(range, b)

\* b bits cost fewer bits per accepted draw than the best so far
Cheaper(range, b, best) == b * Span[b] * AcceptBelow(range, best) < best * Span[best] * AcceptBelow(range, b)

\* the loop over b, none having been found at 0
Entropy_Pool_DrawBits(range) ==
  LET best[b \in 0..MaxDrawBits] ==
        IF b = 0 THEN 0
        ELSE LET last == best[b - 1]
             IN  IF Span[b] >= range /\ (last = 0 \/ Cheaper(range, b, last)) THEN b ELSE last
  IN  best[MaxDrawBits]
=============================================================================

------------------------------ MODULE Sampling ------------------------------
(***************************************************************************)
(* Sampling noise: the blocks of adc_drv.c, GENERATE's StepSampling with   *)
(* its entropy pool, and the blocking Entropy_Source_GetBytes of a setup   *)
(* or key change, which use the same converter from the main thread.  The  *)
(* panic interrupt wipes GENERATE's statics at any point; the ADC's DMA    *)
(* interrupt ends a block at any time, or never; milliseconds pass.        *)
(*                                                                         *)
(* The prompts before the sampling and the save after it are in            *)
(* ModeGenerate.  The noise of GetBytes is left out: whether its pool has  *)
(* enough is a choice.                                                     *)
(***************************************************************************)
EXTENDS EntropyPool, FiniteSets

CONSTANTS
  BlockSamples,  \* ENTROPY_BLOCK_SAMPLES
  MaxRounds,     \* GEN_MAX_ROUNDS and ES_MAX_ROUNDS
  Timeout,       \* GEN_BLOCK_TIMEOUT_MS and ES_BLOCK_TIMEOUT_MS
  Charsets,      \* sizes that BuildCharset can give
  Lengths,       \* lengths a user asks for
  MaxPanics      \* bound on the panics

ASSUME SamplingAssumption == /\ BlockSamples \in Nat /\ BlockSamples % 2 = 0
                             /\ MaxRounds \in Nat /\ Timeout \in Nat /\ MaxPanics \in Nat
                             /\ Charsets \subseteq 1..Span[MaxDrawBits]
                             /\ Lengths \subseteq Nat \ {0}

Blocks  == [1..BlockSamples -> Samples]
Waiting == {"waitTemp", "waitLight"}
\* the callers of the converter, each with its own s_samples
Buffers == {"gen", "src"}

VARIABLES
  pc,                   \* where the main thread is, "loop" between two passes
  sub,                  \* s_sub, as far as it samples; "away" while the mode is not on
  wiped,                \* s_wiped
  pool,                 \* s_pool of mode_generate.c
  charset, drawBits, threshold,  \* s_charset_len, s_draw_bits, s_reject_threshold
  length, chars,        \* s_length, s_chars_done
  rounds,               \* s_rounds, or the local of GetBytes
  age,                  \* milliseconds since the last MarkWaitStart or RunBlock, no more than matter
  value, i, head,       \* locals of TakeBits: the draw, its bits, and the loaded fifo->head
  count,                \* Fifo_Compact: the loaded fifo->count; head is the loaded head
  busy, ready,          \* s_block_busy, s_block_ready
  buf, chan,            \* the block the converter was last started for
  noise,                \* history: the samples absorbed by the sampling that goes on
  used,                 \* history: the bits it took from each channel
  panics

textVars == <<charset, drawBits, threshold, length>>
genVars  == <<sub, wiped, textVars>>
drawVars == <<value, i, head, count>>
adcVars  == <<busy, ready, buf, chan>>
histVars == <<noise, used>>
vars == <<pc, genVars, pool, chars, rounds, age, drawVars, adcVars, histVars, panics>>

Empty == [c \in Channels |-> <<>>]

Init == /\ pc = "loop" /\ sub = "away" /\ wiped = FALSE
        /\ pool = Entropy_Pool_Init
        /\ charset = 0 /\ drawBits = MaxDrawBits /\ threshold = 0 /\ length = 0 /\ chars = 0
        /\ rounds = 0 /\ age = 0
        /\ value = 0 /\ i = 0 /\ head = 0 /\ count = 0
        /\ busy = FALSE /\ ready = FALSE /\ buf = "gen" /\ chan = "temp"
        /\ noise = Empty /\ used = Empty
        /\ panics = 0

-----------------------------------------------------------------------------
(* adc_drv.c. *)

\* mutant: the end of the block before is still reported
StartBlockStale(b, c) ==
  /\ ~busy
  /\ busy' = TRUE /\ buf' = b /\ chan' = c
  /\ UNCHANGED ready

\* ADC_Drv_StartBlock when it succeeds; it fails when a block is in flight
ADC_Drv_StartBlock(b, c) ==
  /\ ~busy
  /\ busy' = TRUE /\ ready' = FALSE /\ buf' = b /\ chan' = c

\* DMA2_Stream0_IRQHandler: the buffer is full
BlockDone ==
  /\ busy
  /\ busy' = FALSE /\ ready' = TRUE
  /\ UNCHANGED <<pc, genVars, pool, chars, rounds, age, drawVars, buf, chan, histVars, panics>>

\* more milliseconds than the timeout are the same to WaitTimedOut
Tick ==
  /\ age <= Timeout
  /\ age' = age + 1
  /\ UNCHANGED <<pc, genVars, pool, chars, rounds, drawVars, adcVars, histVars, panics>>

WaitTimedOut == age > Timeout

-----------------------------------------------------------------------------
(* GENERATE. *)

\* Mode_Generate_Enter
Enter ==
  /\ pc = "loop" /\ sub = "away"
  /\ wiped' = FALSE
  /\ pool' = Entropy_Pool_Init
  /\ sub' = "prompt" /\ chars' = 0 /\ rounds' = 0
  /\ UNCHANGED <<pc, textVars, age, drawVars, adcVars, histVars, panics>>

\* the classes that the user gives choose the draw
BuildCharset ==
  /\ charset' \in Charsets
  /\ drawBits' = Entropy_Pool_DrawBits(charset') /\ threshold' = AcceptBelow(charset', drawBits')

\* the classes are given, then the length (HandleClasses, HandleLength)
HandleLength ==
  /\ pc = "loop" /\ sub = "prompt" /\ ~wiped
  /\ BuildCharset /\ length' \in Lengths
  /\ chars' = 0 /\ rounds' = 0
  /\ pool' = Entropy_Pool_Init
  /\ age' = 0
  /\ sub' = "startRound"
  /\ UNCHANGED <<pc, wiped, drawVars, adcVars, histVars, panics>>

\* the end of Mode_Generate_Run when it is done: after a panic, a fault or
\* the save, or because the user cancels a prompt
Leave ==
  /\ \/ pc = "loop" /\ sub # "away" /\ (wiped \/ sub \in {"prompt", "save"})
     \/ pc = "fault"
  /\ pc' = "loop" /\ sub' = "away"
  /\ pool' = Entropy_Pool_Init
  /\ noise' = Empty /\ used' = Empty
  /\ UNCHANGED <<wiped, textVars, chars, rounds, age, drawVars, adcVars, panics>>

\* a pass of StepSampling
Pass ==
  /\ pc = "loop" /\ ~wiped
  /\ \/ sub = "startRound" /\ pc' = "produce"
     \/ sub \in Waiting /\ pc' = "wait"
  /\ UNCHANGED <<genVars, pool, chars, rounds, age, drawVars, adcVars, histVars, panics>>

\* GEN_FIRST_CHANNEL is light
ProduceChars ==
  /\ pc = "produce"
  /\ chars < length /\ Enough(pool, drawBits, "light")
  /\ pc' = "load"
  /\ UNCHANGED <<genVars, pool, chars, rounds, age, drawVars, adcVars, histVars, panics>>

Taken == HeadBit(pool.fifo[BitChannel("light", i)])
\* the bit a pair of samples stands for is that of its first
BitValue(c, n) == IF n = Zeroed THEN 0 ELSE LowBit(noise[c][2 * n - 1])

\* fifo->bits[fifo->head] is read, and head to be incremented
LoadBit ==
  /\ pc = "load"
  /\ LET c == BitChannel("light", i)
     IN  /\ value' = 2 * value + BitValue(c, Taken)
         /\ head' = pool.fifo[c].head
         /\ used' = [used EXCEPT ![c] = Append(@, Taken)]
  /\ pc' = "store"
  /\ UNCHANGED <<genVars, pool, chars, rounds, age, i, count, adcVars, noise, panics>>

\* head is written back; after the last bit ProduceChars keeps the draw or
\* rejects it
StoreHead ==
  /\ pc = "store"
  /\ pool' = [pool EXCEPT !.fifo[BitChannel("light", i)].head = head + 1]
  /\ head' = 0
  /\ IF i + 1 < drawBits
       THEN i' = i + 1 /\ pc' = "load" /\ UNCHANGED <<value, chars>>
       ELSE /\ i' = 0 /\ value' = 0 /\ pc' = "produce"
            /\ chars' = chars + IF value < threshold THEN 1 ELSE 0
  /\ UNCHANGED <<genVars, rounds, age, count, adcVars, histVars, panics>>

NothingToProduce == pc = "produce" /\ ~(chars < length /\ Enough(pool, drawBits, "light"))

PasswordDone ==
  /\ NothingToProduce /\ chars >= length
  /\ sub' = "save" /\ pc' = "loop"
  /\ UNCHANGED <<wiped, textVars, pool, chars, rounds, age, drawVars, adcVars, histVars, panics>>

\* the rounds are used up, or the next begins, or an earlier block is still
\* in flight
StartRound ==
  /\ NothingToProduce /\ chars < length
  /\ \/ rounds >= MaxRounds /\ pc' = "fault" /\ UNCHANGED <<sub, rounds, age, adcVars>>
     \/ /\ rounds < MaxRounds
        /\ ADC_Drv_StartBlock("gen", "temp")
        /\ rounds' = rounds + 1 /\ age' = 0 /\ sub' = "waitTemp" /\ pc' = "loop"
     \/ rounds < MaxRounds /\ busy /\ pc' = "late" /\ UNCHANGED <<sub, rounds, age, adcVars>>
  /\ UNCHANGED <<wiped, textVars, pool, chars, drawVars, histVars, panics>>

\* ADC_Drv_BlockReady
WaitBlock ==
  /\ pc = "wait"
  /\ pc' = IF ready THEN "absorb" ELSE "late"
  /\ UNCHANGED <<genVars, pool, chars, rounds, age, drawVars, adcVars, histVars, panics>>

\* mutant: every pass starts the wait again
LateRestart ==
  /\ pc = "late"
  /\ pc' = IF WaitTimedOut THEN "fault" ELSE "loop"
  /\ age' = 0
  /\ UNCHANGED <<genVars, pool, chars, rounds, drawVars, adcVars, histVars, panics>>

Late ==
  /\ pc = "late"
  /\ pc' = IF WaitTimedOut THEN "fault" ELSE "loop"
  /\ UNCHANGED <<genVars, pool, chars, rounds, age, drawVars, adcVars, histVars, panics>>

Waited == IF sub = "waitTemp" THEN "temp" ELSE "light"

\* Entropy_Pool_Absorb up to the first load of Fifo_Compact.  The pool is not
\* volatile: a build that optimises keeps the head it compared with 0 and
\* loads count for the difference; at -O0 count is loaded, then head again.
Absorb ==
  /\ pc = "absorb"
  /\ \E block \in Blocks :
       LET c == Waited
       IN  /\ noise' = [noise EXCEPT ![c] = @ \o block]
           /\ pool' = [pool EXCEPT !.health[c] = HealthAfter(@, block)]
           /\ \/ ~BlockOk(pool.health[c], block) /\ pc' = "fault" /\ UNCHANGED <<head, count>>
              \/ /\ BlockOk(pool.health[c], block)
                 /\ pc' = "compactHead" /\ head' = pool.fifo[c].head /\ UNCHANGED count
              \/ /\ BlockOk(pool.health[c], block) /\ pool.fifo[c].head > 0
                 /\ pc' = "compactCount" /\ count' = Len(pool.fifo[c].bits) /\ UNCHANGED head
  /\ UNCHANGED <<genVars, chars, rounds, age, value, i, adcVars, used, panics>>

\* the queue as Fifo_Compact has loaded it: the other load comes now.  A
\* count without its bits is that of zeroes.
Loaded ==
  LET fifo == pool.fifo[Waited]
      n    == IF pc = "compactCount" THEN count ELSE Len(fifo.bits)
  IN  [bits |-> [k \in 1..n |-> IF k <= Len(fifo.bits) THEN fifo.bits[k] ELSE Zeroed],
       head |-> IF pc = "compactHead" THEN head ELSE fifo.head]

\* the difference is below zero and wraps: memmove runs past the array, and
\* what the program does from here on is not defined
Overrun ==
  /\ pc \in {"compactHead", "compactCount"}
  /\ Loaded.head > Len(Loaded.bits)
  /\ pc' = "overrun"
  /\ UNCHANGED <<genVars, pool, chars, rounds, age, drawVars, adcVars, histVars, panics>>

\* the rest of Entropy_Pool_Absorb, then what the caller does.  What a panic
\* in it leaves in the queue stays inside, and is not used: wiped ends the
\* sampling.
Debias ==
  /\ pc \in {"compactHead", "compactCount"}
  /\ Loaded.head <= Len(Loaded.bits)
  /\ LET c     == Waited
         read  == Len(noise[c]) - BlockSamples
         block == SubSeq(noise[c], read + 1, Len(noise[c]))
     IN  /\ pool' = [pool EXCEPT !.fifo[c] = Absorbed(Loaded, block, read \div 2 + 1)]
         /\ \/ /\ c = "temp" /\ ADC_Drv_StartBlock("gen", "light")
               /\ age' = 0 /\ sub' = "waitLight" /\ pc' = "loop"
            \/ c = "temp" /\ busy /\ pc' = "fault" /\ UNCHANGED <<sub, age, adcVars>>
            \/ /\ c = "light" /\ age' = 0 /\ sub' = "startRound" /\ pc' = "loop"
               /\ UNCHANGED adcVars
  /\ head' = 0 /\ count' = 0
  /\ UNCHANGED <<wiped, textVars, chars, rounds, value, i, histVars, panics>>

\* Reset_Handler, when the user resets a board that went astray
Reset ==
  /\ pc = "overrun"
  /\ pc' = "loop" /\ sub' = "away" /\ wiped' = FALSE
  /\ pool' = Entropy_Pool_Init
  /\ charset' = 0 /\ drawBits' = MaxDrawBits /\ threshold' = 0 /\ length' = 0 /\ chars' = 0
  /\ rounds' = 0 /\ age' = 0
  /\ value' = 0 /\ i' = 0 /\ head' = 0 /\ count' = 0
  /\ busy' = FALSE /\ ready' = FALSE /\ buf' = "gen" /\ chan' = "temp"
  /\ noise' = Empty /\ used' = Empty
  /\ UNCHANGED panics

-----------------------------------------------------------------------------
(* Entropy_Source_GetBytes, called by Session_SetNewKey. *)

SrcFrame == UNCHANGED <<genVars, pool, chars, drawVars, histVars, panics>>

SrcBegin ==
  /\ pc = "loop" /\ sub = "away"
  /\ rounds' = 0
  /\ pc' = "srcRound"
  /\ SrcFrame /\ UNCHANGED <<age, adcVars>>

\* done, out of rounds, or RunBlock; it gives up at once when a block is in
\* flight
SrcRound ==
  /\ pc = "srcRound"
  /\ \/ pc' = "loop" /\ rounds' = 0 /\ UNCHANGED <<age, adcVars>>
     \/ /\ rounds < MaxRounds
        /\ ADC_Drv_StartBlock("src", "temp")
        /\ rounds' = rounds + 1 /\ age' = 0 /\ pc' = "srcTemp"
  /\ SrcFrame

\* the block is absorbed, with success or not; or the wait goes on
SrcWait ==
  /\ pc \in {"srcTemp", "srcLight"}
  /\ \/ /\ ready /\ pc = "srcTemp"
        /\ ADC_Drv_StartBlock("src", "light")
        /\ age' = 0 /\ pc' = "srcLight"
     \/ ready /\ pc = "srcLight" /\ pc' = "srcRound" /\ UNCHANGED <<age, adcVars>>
     \/ ready /\ pc' = "loop" /\ UNCHANGED <<age, adcVars>>
     \/ ~ready /\ WaitTimedOut /\ pc' = "loop" /\ UNCHANGED <<age, adcVars>>
  /\ SrcFrame /\ UNCHANGED rounds

-----------------------------------------------------------------------------

\* App_PanicHandler: Mode_Generate_Wipe
Panic ==
  /\ panics < MaxPanics
  /\ panics' = panics + 1
  /\ wiped' = TRUE
  /\ pool' = Entropy_Pool_Init
  /\ UNCHANGED <<pc, sub, textVars, chars, rounds, age, drawVars, adcVars, histVars>>

User == Enter \/ HandleLength \/ SrcBegin \/ Reset

Main == Leave \/ Pass \/ ProduceChars \/ LoadBit \/ StoreHead \/ PasswordDone \/ StartRound
        \/ WaitBlock \/ Late \/ Absorb \/ Overrun \/ Debias \/ SrcRound \/ SrcWait

Next == User \/ Main \/ BlockDone \/ Tick \/ Panic

Spec == Init /\ [][Next]_vars

\* The main loop and the clock run on; the converter need never finish, and
\* the user need do nothing.
FairSpec == Spec /\ WF_vars(Main) /\ WF_vars(Tick)

-----------------------------------------------------------------------------
(* Properties. *)

Sampled == sub \in {"startRound", "save"} \cup Waiting

MainTypes == /\ pc \in {"loop", "produce", "load", "store", "wait", "late", "absorb", "compactHead", "compactCount",
                        "overrun", "fault",
                        "srcRound", "srcTemp", "srcLight"}
             /\ sub \in {"away", "prompt", "startRound", "save"} \cup Waiting
             /\ wiped \in BOOLEAN
             /\ chars \in Nat /\ rounds \in 0..MaxRounds /\ age \in 0..(Timeout + 1)
             /\ panics \in 0..MaxPanics

PoolTypes == /\ pool \in Pools
             /\ \A c \in Channels : Len(pool.fifo[c].bits) <= FifoCap

TextTypes == /\ charset \in Charsets \cup {0} /\ drawBits \in 1..MaxDrawBits
             /\ threshold \in 0..Span[MaxDrawBits] /\ length \in Lengths \cup {0}

DrawTypes == /\ value \in 0..(Span[MaxDrawBits] - 1) /\ i \in 0..(MaxDrawBits - 1) /\ head \in Nat /\ count \in 0..FifoCap

AdcTypes == busy \in BOOLEAN /\ ready \in BOOLEAN /\ buf \in Buffers /\ chan \in Channels

HistTypes == noise \in [Channels -> Seq(Samples)] /\ used \in [Channels -> Seq(Nat)]

TypeOK == MainTypes /\ PoolTypes /\ TextTypes /\ DrawTypes /\ AdcTypes /\ HistTypes

\* A block is absorbed when it is complete, into the buffer of the caller
\* and from the channel it waits for: never one that was left converting by
\* a panic or a timeout, nor one that is still being written.
BlockIsWhole ==
  /\ pc \in {"absorb", "compactHead", "compactCount"} =>
       ~busy /\ buf = "gen" /\ chan = Waited
  /\ pc \in {"srcTemp", "srcLight"} /\ ready =>
       ~busy /\ buf = "src" /\ chan = (IF pc = "srcTemp" THEN "temp" ELSE "light")

\* A password is made of bits that were taken once and in order, and none
\* of memory that a panic zeroed, however the blocks, the draws and the
\* rejected draws divide the bits.
NoiseIsUsedOnce ==
  sub = "save" /\ ~wiped =>
    \A c \in Channels : \A k \in DOMAIN used[c] :
      used[c][k] # Zeroed /\ (k > 1 => used[c][k - 1] < used[c][k])

\* No password is made from a channel that is stuck or that prefers one
\* value, over all its blocks: no run of RctCutoff equal samples, and no
\* window of the adaptive test with AptCutoff samples like its first.
NoiseIsHealthy ==
  sub = "save" /\ ~wiped =>
    \A c \in Channels : LET s == noise[c] IN
      /\ \A k \in RctCutoff..Len(s) : \E j \in (k - RctCutoff + 1)..k : s[j] # s[k]
      /\ \A w \in 1..Len(s) : w = 1 \/ w % AptWindow = 0 =>
           LET last == IF w + AptWindow - 1 <= Len(s) THEN w + AptWindow - 1 ELSE Len(s)
           IN  Cardinality({j \in w..last : s[j] = s[w]}) < AptCutoff

\* A draw takes only bits that are there, unless a panic in the middle of it
\* zeroed the queues: the head that is written back then lies past the
\* count, and the count of what is available wraps.  Even so no block is
\* absorbed after a torn draw.  Fifo_Compact moves a difference below zero
\* only when a panic came between its two loads, and never in a build that
\* loads the count first.
QueuesStayInside ==
  /\ pc = "load" /\ ~wiped => LET fifo == pool.fifo[BitChannel("light", i)] IN fifo.head < Len(fifo.bits)
  /\ pc = "absorb" => \A c \in Channels : pool.fifo[c].head <= Len(pool.fifo[c].bits)
  /\ pc = "compactHead" /\ ~wiped => Loaded.head <= Len(Loaded.bits)
  /\ pc = "compactCount" => Loaded.head <= Len(Loaded.bits)
  /\ pc = "overrun" => wiped

\* Not so, and in no run: entropy_pool.c:14 of Fifo_Compact says that it
\* "slides unread bits to the front", so it moves no more than the queue
\* holds.  A build that loads head before
\* count moves nearly 64 KB when a panic zeroes the pool between the loads.
OnlyUnreadBitsMove ==
  pc \in {"compactHead", "compactCount"} => Loaded.head <= Len(Loaded.bits)

\* Whatever classes the user, asked for the first time, will give: each
\* character is equally likely, and no other number of bits costs fewer bits
\* per character, nor as few and is smaller.
DrawsAreFairAndCheap ==
  sub = "prompt" /\ charset = 0 =>
    \A range \in 1..Span[MaxDrawBits] :
      LET b      == Entropy_Pool_DrawBits(range)
          accept == AcceptBelow(range, b)
      IN  /\ accept > 0 /\ accept % range = 0 /\ Span[b] - accept < range
          /\ \A a \in 1..MaxDrawBits : Span[a] >= range =>
               \/ b * Span[b] * AcceptBelow(range, a) < a * Span[a] * accept
               \/ b * Span[b] * AcceptBelow(range, a) = a * Span[a] * accept /\ b <= a

\* Sampling ends, with a password or a fault, though the converter may hang,
\* the noise may never yield a bit, and a panic may empty the pool; or the
\* program is lost in the overrun.
SamplingEnds ==
  (sub \in {"startRound"} \cup Waiting \/ pc # "loop")
    ~> (pc = "loop" => sub \in {"away", "save"}) /\ pc \in {"loop", "overrun"}
=============================================================================

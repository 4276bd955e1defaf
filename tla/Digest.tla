------------------------------- MODULE Digest -------------------------------
(***************************************************************************)
(* sha256.c, hmac_sha256.c, aes_ctr.c and crc_drv.c over symbolic bytes.   *)
(*                                                                         *)
(* A byte is a set of atoms; {} is zero, and xor is the symmetric          *)
(* difference.  What the compression function, AES and the CRC unit give   *)
(* is an atom that names their whole input, so that two results are equal  *)
(* exactly when the inputs are.  What remains is what these files do       *)
(* themselves: cutting, padding, chaining, counting.                       *)
(***************************************************************************)
EXTENDS Naturals, Sequences, SequencesExt

CONSTANTS
  BlockLen,     \* SHA256_BLOCK_BYTES
  LenOffset,    \* SHA256_LEN_HI_OFFSET
  DigestLen,    \* SHA256_DIGEST_BYTES
  CipherLen,    \* AES128_BLOCK_LEN
  CounterBase,  \* values of a byte of the counter
  WordBytes     \* CRC_WORD_BYTES

ASSUME DigestAssumption == /\ BlockLen \in Nat /\ LenOffset \in 1..(BlockLen - 1)
                           /\ DigestLen \in 1..BlockLen
                           /\ CipherLen \in Nat \ {0} /\ CounterBase \in Nat \ {0} /\ WordBytes \in Nat \ {0}

Zeros(n)       == [k \in 1..n |-> {}]
Text(label)    == <<{<<"text", label>>}>>
Xor(x, y)      == (x \ y) \cup (y \ x)
XorBytes(s, r) == [k \in DOMAIN s |-> Xor(s[k], r[k])]

\* s in pieces of n, the last one possibly shorter
Pieces(s, n) ==
  [j \in 1..((Len(s) + n - 1) \div n) |-> SubSeq(s, n * (j - 1) + 1, IF n * j < Len(s) THEN n * j ELSE Len(s))]

-----------------------------------------------------------------------------
(* sha256.c.  SHA256_Transform appends a block to what was compressed.      *)

SHA256_Init == [blocks |-> <<>>, buffer |-> <<>>, bits |-> 0]

Push(ctx, byte) ==
  LET buffer == Append(ctx.buffer, byte)
  IN  IF Len(buffer) = BlockLen
        THEN [blocks |-> Append(ctx.blocks, buffer), buffer |-> <<>>, bits |-> ctx.bits + 8 * BlockLen]
        ELSE [ctx EXCEPT !.buffer = buffer]

SHA256_Update(ctx, data) == FoldLeft(Push, ctx, data)

LengthField(bits) == [k \in 1..(BlockLen - LenOffset) |-> {<<"length", bits, k>>}]
Hash(blocks)      == [k \in 1..DigestLen |-> {<<"sha", blocks, k>>}]

\* mutant: a buffer that is filled up to the length field is taken to fit
SHA256_FinalTight(ctx) ==
  LET marked == Append(ctx.buffer, {<<"pad">>})
      fits   == Len(ctx.buffer) <= LenOffset
      bits   == ctx.bits + 8 * Len(ctx.buffer)
  IN  Hash(IF fits THEN Append(ctx.blocks, marked \o Zeros(LenOffset - Len(marked)) \o LengthField(bits))
                   ELSE ctx.blocks \o <<marked \o Zeros(BlockLen - Len(marked)), Zeros(LenOffset) \o LengthField(bits)>>)

\* the end mark, and another block when the length does not fit after it
SHA256_Final(ctx) ==
  LET marked == Append(ctx.buffer, {<<"pad">>})
      fits   == Len(ctx.buffer) < LenOffset
      bits   == ctx.bits + 8 * Len(ctx.buffer)
  IN  Hash(IF fits THEN Append(ctx.blocks, marked \o Zeros(LenOffset - Len(marked)) \o LengthField(bits))
                   ELSE ctx.blocks \o <<marked \o Zeros(BlockLen - Len(marked)), Zeros(LenOffset) \o LengthField(bits)>>)

SHA256_Compute(data) == SHA256_Final(SHA256_Update(SHA256_Init, data))

-----------------------------------------------------------------------------
(* hmac_sha256.c, and the streamed form of partition_store.c.               *)

\* no key of the firmware is longer than a block
HmacSha256_Init(key) ==
  LET short     == IF Len(key) > BlockLen THEN SHA256_Compute(key) ELSE key
      k         == short \o Zeros(BlockLen - Len(short))
      Pad(byte) == XorBytes(k, [j \in 1..BlockLen |-> {<<byte>>}])
  IN  [inner |-> SHA256_Update(SHA256_Init, Pad("ipad")),
       outer |-> SHA256_Update(SHA256_Init, Pad("opad"))]

MacParts(mac, parts) ==
  SHA256_Final(SHA256_Update(mac.outer, SHA256_Final(FoldLeft(SHA256_Update, mac.inner, parts))))

HmacSha256_Compute(mac, msg) == MacParts(mac, <<msg>>)

HmacSha256(key, msg) == HmacSha256_Compute(HmacSha256_Init(key), msg)

-----------------------------------------------------------------------------
(* aes_ctr.c.  A counter block is a sequence of digits.                     *)

\* mutant: no carry
IncrementLast(counter) == [counter EXCEPT ![Len(counter)] = (@ + 1) % CounterBase]

\* the big-endian increment: a digit changes when all after it wrap
Increment(counter) ==
  [p \in DOMAIN counter |->
     IF \A q \in DOMAIN counter : q > p => counter[q] = CounterBase - 1
       THEN (counter[p] + 1) % CounterBase ELSE counter[p]]

\* byte k of the block that aes128.c encrypts
Aes128_EncryptBlock(key, block, k) == {<<"aes", key, block, k>>}

AesCtr_Apply(buf, key, iv) ==
  LET counter[j \in Nat] == IF j = 0 THEN iv ELSE Increment(counter[j - 1])
  IN  [k \in DOMAIN buf |->
         Xor(buf[k], Aes128_EncryptBlock(key, counter[(k - 1) \div CipherLen], k % CipherLen))]

-----------------------------------------------------------------------------
(* crc_drv.c: the words that were fed, a tail filled up with zeroes.        *)

CRC_Drv_Feed(crc, data) ==
  crc \o [j \in DOMAIN Pieces(data, WordBytes) |->
            LET word == Pieces(data, WordBytes)[j] IN word \o Zeros(WordBytes - Len(word))]
=============================================================================

------------------------------ MODULE Sealing -------------------------------
(***************************************************************************)
(* What a partition is made of, byte by byte: the derivation of the keys   *)
(* (kdf.c), which a panic cancels, the partition that a commit seals, the  *)
(* check of a boot and the load of a session (partition_store.c,           *)
(* session.c), and flash that goes bad.                                    *)
(*                                                                         *)
(* PartitionStore and Runeit take for granted what is checked here: a slot *)
(* validates when it is what was written, a key opens what it sealed, and  *)
(* the table comes back.  They in turn have what is a single step here:    *)
(* commits that are interrupted, two slots, and panics inside operations.  *)
(***************************************************************************)
EXTENDS Digest

CONSTANTS
  Keys,        \* master keys that the policy accepts, as texts
  Salts,       \* what MakeSalt may give
  Tables,      \* plaintexts of a table
  Iterations,  \* KDF_ITERATIONS
  Poll,        \* KDF_CANCEL_POLL_MASK + 1
  Ivs,         \* counter blocks that the MAC over a table may give
  CrcChunk,    \* CRC_CHUNK_LEN
  MaxVersion,  \* bound on the versions
  None

ASSUME SealingAssumption == /\ Iterations \in Nat \ {0} /\ Poll \in Nat \ {0} /\ MaxVersion \in Nat
                            /\ Ivs \subseteq Seq(0..(CounterBase - 1))
                            /\ CrcChunk \in Nat \ {0} /\ CrcChunk % WordBytes = 0

\* all are bytes, whatever these are, the policy keeps a key within a block,
\* and what becomes of a byte when flash goes bad is not what it was
ASSUME BytesAssumption == /\ \A s \in Keys \cup Salts \cup Tables : s \in Seq(Range(s))
                          /\ \A key \in Keys : Len(key) <= BlockLen
                          /\ \A s \in Salts : s # <<>>
                          /\ \A s \in Salts \cup Tables : \A k \in DOMAIN s : <<"damage">> \notin s[k]

\* how many counters of n digits there are
Counters[n \in Nat] == IF n = 0 THEN 1 ELSE CounterBase * Counters[n - 1]

\* a counter changes when it is incremented, and a table ends before it is
\* back where it began
ASSUME CounterAssumption == /\ CounterBase > 1
                            /\ \A iv \in Ivs : iv # <<>>
                            /\ \A table \in Tables, iv \in Ivs : Len(table) <= CipherLen * Counters[Len(iv)]

VARIABLES
  pc,       \* "idle", "rounds" of a derivation, or "derived"
  op,       \* the caller: "new" is Session_SetNewKey, "login" Session_Authenticate
  mk, salt, \* what is derived from
  hmac, u, t, i,  \* locals of Kdf_Pbkdf2Sha256
  cancel,   \* s_generation moved on since the operation began
  late,     \* history: the rounds computed since then
  active,   \* s_active.header, or None
  session,  \* s_key, or None
  flash,    \* the partition in flash, or None
  sealed,   \* history: the master key and the table it was made from, and its salt
  damaged,  \* history: a byte of it has changed since
  opened,   \* the table that was loaded, or None
  result

kdfVars   == <<op, mk, salt, hmac, u, t, i, late>>
storeVars == <<active, flash, sealed, damaged>>
vars      == <<pc, kdfVars, cancel, session, opened, result, storeVars>>

Wiped == <<>>

Init == /\ pc = "idle" /\ op = "new" /\ mk = Wiped /\ salt = Wiped
        /\ hmac = Wiped /\ u = Wiped /\ t = Wiped /\ i = 0
        /\ cancel = FALSE /\ late = 0
        /\ active = None /\ session = None /\ flash = None
        /\ sealed = None /\ damaged = FALSE
        /\ opened = None /\ result = "none"

-----------------------------------------------------------------------------
(* Kdf_Pbkdf2Sha256. *)

BlockIndex == Text("index")

\* the first round, which is not preceded by a poll
Begin(caller, key, s) ==
  /\ pc = "idle"
  /\ op' = caller /\ mk' = key /\ salt' = s
  /\ hmac' = HmacSha256_Init(key)
  /\ u' = HmacSha256_Compute(hmac', s \o BlockIndex) /\ t' = u'
  /\ i' = 1 /\ cancel' = FALSE /\ late' = 0
  /\ pc' = "rounds" /\ result' = "none" /\ opened' = None
  /\ UNCHANGED <<session, storeVars>>

\* mutant: the mask has one bit more
PolledSeldom == i % (2 * Poll) = 0

Polled == i % Poll = 0

Round ==
  /\ pc = "rounds" /\ i < Iterations /\ ~(Polled /\ cancel)
  /\ u' = HmacSha256_Compute(hmac, u)
  /\ t' = XorBytes(t, u')
  /\ i' = i + 1
  /\ late' = IF cancel THEN late + 1 ELSE 0
  /\ UNCHANGED <<pc, op, mk, salt, hmac, cancel, session, opened, result, storeVars>>

\* the secrets of the derivation are wiped when it ends
KdfWipe == hmac' = Wiped /\ u' = Wiped /\ t' = Wiped /\ i' = 0

Cancel ==
  /\ pc = "rounds" /\ i < Iterations /\ Polled /\ cancel
  /\ pc' = "idle" /\ result' = "cancelled"
  /\ KdfWipe
  /\ UNCHANGED <<op, mk, salt, cancel, late, session, opened, storeVars>>

RoundsDone ==
  /\ pc = "rounds" /\ i >= Iterations
  /\ pc' = "derived"
  /\ UNCHANGED <<kdfVars, cancel, session, opened, result, storeVars>>

\* Kdf_DeriveKeys
Auth == HmacSha256(t, Text("auth"))
Enc  == HmacSha256(t, Text("enc"))

-----------------------------------------------------------------------------
(* partition_store.c. *)

DeriveKeys(enc) == [aes |-> HmacSha256(enc, Text("aes")),
                    mac |-> HmacSha256_Init(HmacSha256(enc, Text("mac")))]

\* the fields of a header as bytes, up to iv, up to tag, and up to crc32
UpToIv(h)  == <<{<<"version", h.version>>}>> \o h.salt \o h.auth
UpToTag(h) == UpToIv(h) \o [k \in DOMAIN h.iv |-> {<<"digit", h.iv[k]>>}]
UpToCrc(h) == UpToTag(h) \o h.tag

ComputeTag(keys, h, cipher) == MacParts(keys.mac, <<<<>>, UpToTag(h), cipher>>)

\* mutant: the tag is computed before the table is encrypted
SealedTagFirst(enc, s, auth, version, iv, table) ==
  LET keys   == DeriveKeys(enc)
      cipher == AesCtr_Apply(table, keys.aes, iv)
      h      == [version |-> version, salt |-> s, auth |-> auth, iv |-> iv, tag |-> <<>>, crc |-> <<>>]
      tagged == [h EXCEPT !.tag = ComputeTag(keys, h, table)]
      crc    == CRC_Drv_Feed(CRC_Drv_Feed(<<>>, UpToCrc(tagged)), cipher)
  IN  [header |-> [tagged EXCEPT !.crc = crc], body |-> cipher]

\* what Partition_Store_Commit writes
Sealed(enc, s, auth, version, iv, table) ==
  LET keys   == DeriveKeys(enc)
      cipher == AesCtr_Apply(table, keys.aes, iv)
      h      == [version |-> version, salt |-> s, auth |-> auth, iv |-> iv, tag |-> <<>>, crc |-> <<>>]
      tagged == [h EXCEPT !.tag = ComputeTag(keys, h, cipher)]
      crc    == CRC_Drv_Feed(CRC_Drv_Feed(<<>>, UpToCrc(tagged)), cipher)
  IN  [header |-> [tagged EXCEPT !.crc = crc], body |-> cipher]

\* mutant: the chunks stop before a shorter last one
WholeChunks(body) == SelectSeq(Pieces(body, CrcChunk), LAMBDA c : Len(c) = CrcChunk)

\* the table is read from flash and fed in chunks
Chunks(body) == Pieces(body, CrcChunk)

ValidateCrc(part) ==
  FoldLeft(CRC_Drv_Feed, CRC_Drv_Feed(<<>>, UpToCrc(part.header)), Chunks(part.body)) = part.header.crc

NextVersion == IF active = None THEN 1 ELSE active.version + 1

\* Partition_Store_Commit when the power holds, so that what is read back
\* validates; two slots, interruptions and failing writes are in
\* PartitionStore.  The synthetic IV, a MAC, is any of Ivs.
Partition_Store_Commit(enc, s, auth, table, from) ==
  /\ NextVersion <= MaxVersion
  /\ \E iv \in Ivs : flash' = Sealed(enc, s, auth, NextVersion, iv, table)
  /\ active' = flash'.header
  /\ damaged' = FALSE
  /\ sealed' = [mk |-> from, salt |-> s, table |-> table]

-----------------------------------------------------------------------------
(* session.c. *)

\* Session_SetNewKey after the derivation
SetNewKey ==
  /\ pc = "derived" /\ op = "new"
  /\ \/ /\ cancel /\ result' = "cancelled" /\ UNCHANGED <<session, storeVars>>
     \/ /\ ~cancel /\ result' = "ok" /\ session' = Enc
        /\ \E table \in Tables : Partition_Store_Commit(Enc, salt, Auth, table, mk)
  /\ pc' = "idle" /\ KdfWipe
  /\ UNCHANGED <<op, mk, salt, cancel, late, opened>>

\* Session_Authenticate after the derivation
Login ==
  /\ pc = "derived" /\ op = "login"
  /\ \/ Auth # active.auth /\ result' = "wrong" /\ UNCHANGED session
     \/ Auth = active.auth /\ cancel /\ result' = "cancelled" /\ UNCHANGED session
     \/ Auth = active.auth /\ ~cancel /\ result' = "ok" /\ session' = Enc
  /\ pc' = "idle" /\ KdfWipe
  /\ UNCHANGED <<op, mk, salt, cancel, late, opened, storeVars>>

\* Session_Save
Save ==
  /\ pc = "idle" /\ session # None
  /\ \E table \in Tables : Partition_Store_Commit(session, active.salt, active.auth, table, sealed.mk)
  /\ result' = "ok" /\ opened' = None
  /\ UNCHANGED <<pc, kdfVars, cancel, session>>

\* Session_LoadTable: Partition_Store_Load with the header in RAM
Load ==
  /\ pc = "idle" /\ session # None
  /\ LET keys == DeriveKeys(session)
     IN  IF ComputeTag(keys, active, flash.body) = active.tag
           THEN /\ opened' = AesCtr_Apply(flash.body, keys.aes, active.iv)
                /\ result' = "ok"
           ELSE opened' = None /\ result' = "refused"
  /\ UNCHANGED <<pc, kdfVars, cancel, session, storeVars>>

-----------------------------------------------------------------------------

Start == \/ \E key \in Keys, s \in Salts : session = None /\ active = None /\ Begin("new", key, s)
         \/ \E key \in Keys, s \in Salts : session # None /\ Begin("new", key, s)
         \/ \E key \in Keys : session = None /\ active # None /\ Begin("login", key, active.salt)

\* App_PanicHandler
Panic ==
  /\ cancel' = TRUE /\ session' = None /\ opened' = None
  /\ UNCHANGED <<pc, kdfVars, result, storeVars>>

\* a byte of the partition is no longer what was written
Damage ==
  /\ flash # None /\ ~damaged
  /\ damaged' = TRUE
  /\ \/ \E k \in DOMAIN flash.body : flash' = [flash EXCEPT !.body[k] = {<<"damage">>}]
     \/ \E field \in {"salt", "auth", "tag"} : flash' = [flash EXCEPT !.header[field] = <<{<<"damage">>}>>]
     \/ flash' = [flash EXCEPT !.header.version = 0]
     \/ flash' = [flash EXCEPT !.header.iv = Increment(@)]
     \/ flash' = [flash EXCEPT !.header.crc = <<>>]
  /\ UNCHANGED <<pc, kdfVars, cancel, session, opened, result, active, sealed>>

\* a reboot, and Partition_Store_Init with a single slot
Boot ==
  /\ flash # None
  /\ active' = IF ValidateCrc(flash) THEN flash.header ELSE None
  /\ pc' = "idle" /\ mk' = Wiped /\ salt' = Wiped /\ KdfWipe
  /\ cancel' = FALSE /\ late' = 0 /\ session' = None /\ opened' = None /\ result' = "none"
  /\ UNCHANGED <<op, flash, sealed, damaged>>

Next == Start \/ Round \/ Cancel \/ RoundsDone \/ SetNewKey \/ Login \/ Save \/ Load
        \/ Panic \/ Damage \/ Boot

Spec == Init /\ [][Next]_vars

-----------------------------------------------------------------------------
(* Reference definitions, from FIPS 180-4, RFC 2104 and RFC 8018. *)

\* the message, a mark, as few zeroes as make whole blocks, and the length
RefHash(msg) ==
  LET zeroes == CHOOSE z \in 0..(BlockLen - 1) :
                  (Len(msg) + 1 + z + (BlockLen - LenOffset)) % BlockLen = 0
  IN  Hash(Pieces(msg \o <<{<<"pad">>}>> \o Zeros(zeroes) \o LengthField(8 * Len(msg)), BlockLen))

RefHmac(key, msg) ==
  LET k         == key \o Zeros(BlockLen - Len(key))
      Pad(byte) == [j \in 1..BlockLen |-> Xor(k[j], {<<byte>>})]
  IN  RefHash(Pad("opad") \o RefHash(Pad("ipad") \o msg))

RefDerived(key, s) ==
  LET U[n \in 1..Iterations] == RefHmac(key, IF n = 1 THEN s \o BlockIndex ELSE U[n - 1])
  IN  FoldLeft(XorBytes, Zeros(DigestLen), [n \in 1..Iterations |-> U[n]])

-----------------------------------------------------------------------------
(* Properties. *)

TypeOK == /\ pc \in {"idle", "rounds", "derived"} /\ op \in {"new", "login"}
          /\ mk \in Keys \cup {Wiped} /\ salt \in Salts \cup {Wiped}
          /\ i \in 0..Iterations /\ late \in Nat /\ cancel \in BOOLEAN /\ damaged \in BOOLEAN
          /\ pc # "idle" => DOMAIN u = 1..DigestLen /\ DOMAIN t = 1..DigestLen
          /\ session # None => DOMAIN session = 1..DigestLen
          /\ active # None => active.version \in 1..MaxVersion /\ active.iv \in Ivs
          /\ sealed # None => sealed.mk \in Keys /\ sealed.salt \in Salts /\ sealed.table \in Tables
          /\ opened = None \/ opened \in Tables
          /\ result \in {"none", "ok", "wrong", "cancelled", "refused"}

\* The derivation is PBKDF2 with HMAC-SHA-256, whatever the lengths of key,
\* salt and digests do to the blocks of the hash.
KeyIsReference == pc = "derived" => t = RefDerived(mk, salt)

\* A session is open only under the key that sealed the partition, a login
\* is refused only for another key, and the table that comes back is the one
\* that was sealed, or none when flash has changed.
OpensWithItsKeyOnly ==
  /\ session # None => session = HmacSha256(RefDerived(sealed.mk, sealed.salt), Text("enc"))
  /\ result = "wrong" => mk # sealed.mk
  /\ result = "refused" => damaged
  /\ opened # None => opened = sealed.table

\* A boot takes a partition exactly when it is what a commit wrote, although
\* the commit checksums the table whole and the boot in chunks.
DamageIsSeen == flash # None => (ValidateCrc(flash) <=> ~damaged)

\* No byte of the key stream encrypts two bytes of a table, wherever the IV
\* makes the counter wrap.
KeystreamUsedOnce ==
  flash # None /\ ~damaged =>
    \A j, k \in DOMAIN flash.body :
      j # k => Xor(flash.body[j], sealed.table[j]) # Xor(flash.body[k], sealed.table[k])

\* After a panic a derivation finishes fewer rounds than lie from one poll to
\* the next, beside the one the panic interrupts, and no session comes of it.
CancelIsPrompt == late < Poll /\ (cancel => session = None)
=============================================================================

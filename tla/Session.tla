------------------------------ MODULE Session -------------------------------
(***************************************************************************)
(* session.c: the steps of the three long operations, Session_Authenticate,*)
(* Session_SetNewKey and Session_LoadTable.  The mode that calls one       *)
(* continues at "auDone", "snDone" or "ldDone"; st tells the modes apart.  *)
(* Session_Save runs inside ModeGenerate's critical section (see there).   *)
(***************************************************************************)
EXTENDS Device

\* Session_MkPolicyOk: 8 to 31 printable characters; zero bytes are not
MkPolicyOk(mk) == mk \in MasterKeys

\* mutant: the generation is not compared
OpenAlways(then) ==
  /\ skey' = derived /\ authd' = TRUE /\ result' = "ok"
  /\ Goto(then)
  /\ UNCHANGED <<rx, screenGen, appVars, gen, opgen, line, derived, modeVars, storeVars>>

\* OpenIfCurrent, one critical section
OpenIfCurrent(then) ==
  /\ IF gen = opgen
       THEN skey' = derived /\ authd' = TRUE /\ result' = "ok"
       ELSE UNCHANGED <<skey, authd>> /\ result' = "cancelled"
  /\ Goto(then)
  /\ UNCHANGED <<rx, screenGen, appVars, gen, opgen, line, derived, modeVars, storeVars>>

-----------------------------------------------------------------------------
(* Session_Authenticate(line). *)

\* up to the start of the derivation: the header is copied and the
\* generation remembered
AuStart ==
  /\ pc = "auStart"
  /\ \/ /\ cell = None
        /\ result' = "noPartition"
        /\ Goto("auDone")
        /\ UNCHANGED <<opgen, derived>>
     \/ /\ cell # None /\ ~MkPolicyOk(line)
        /\ result' = "wrong"
        /\ Goto("auDone")
        /\ UNCHANGED <<opgen, derived>>
     \/ /\ cell # None /\ MkPolicyOk(line)
        /\ opgen' = gen
        /\ derived' = [mk |-> line, salt |-> cell.key.salt]
        /\ Goto("auDerive")
        /\ UNCHANGED result
  /\ UNCHANGED <<rx, screenGen, appVars, skey, authd, gen, line, modeVars, storeVars>>

\* Kdf_DeriveKeys polls KdfCancelled every 32 iterations, so a panic cancels
\* it, or comes after the last poll; then the auth values are compared
AuDerive ==
  /\ pc = "auDerive"
  /\ \/ /\ gen # opgen
        /\ result' = "cancelled"
        /\ Goto("auDone")
     \/ /\ derived # cell.key
        /\ result' = "wrong"
        /\ Goto("auDone")
     \/ /\ derived = cell.key
        /\ Goto("auOpen")
        /\ UNCHANGED result
  /\ UNCHANGED <<rx, screenGen, appVars, sesVars, line, derived, modeVars, storeVars>>

AuOpen == pc = "auOpen" /\ OpenIfCurrent("auDone")

Authenticate == AuStart \/ AuDerive \/ AuOpen

-----------------------------------------------------------------------------
(* Session_SetNewKey(mk, len, table), called by FIRST_MEET with its first   *)
(* entry and no table, by CHANGE_MK with its new key and working table.     *)
(* Both arguments are pointers to statics, read again at each use.          *)

MkBuffer    == IF st = "FIRST_MEET" THEN fm.first ELSE cm.new
TableBuffer == IF st = "FIRST_MEET" THEN EmptyTable ELSE cm.work

SnFrame == UNCHANGED <<rx, screenGen, appVars, skey, authd, gen, line, modeVars>>

SnPolicy ==
  /\ pc = "snPolicy"
  /\ \/ MkPolicyOk(MkBuffer) /\ Goto("snSalt") /\ UNCHANGED result
     \/ ~MkPolicyOk(MkBuffer) /\ result' = "invalid" /\ Goto("snDone")
  /\ SnFrame
  /\ UNCHANGED <<opgen, derived, storeVars>>

\* MakeSalt: device id, version, clock and sampled noise: another salt than
\* the stored one
SnSalt ==
  /\ pc = "snSalt"
  /\ \E s \in Salts :
       /\ cell # None => s # cell.key.salt
       /\ derived' = [mk |-> NulKey, salt |-> s]
  /\ Goto("snGen")
  /\ SnFrame
  /\ UNCHANGED <<opgen, result, storeVars>>

SnGen ==
  /\ pc = "snGen"
  /\ opgen' = gen
  /\ Goto("snKdf")
  /\ SnFrame
  /\ UNCHANGED <<derived, result, storeVars>>

\* Kdf_Pbkdf2Sha256 takes the master key into its HMAC state first
SnKdf ==
  /\ pc = "snKdf"
  /\ derived' = [derived EXCEPT !.mk = IF MkPolicyOk(MkBuffer) THEN MkBuffer ELSE NulKey]
  /\ Goto("snDerive")
  /\ SnFrame
  /\ UNCHANGED <<opgen, result, storeVars>>

SnDerive ==
  /\ pc = "snDerive"
  /\ \/ gen # opgen /\ result' = "cancelled" /\ Goto("snDone")
     \/ Goto("snCheck") /\ UNCHANGED result
  /\ SnFrame
  /\ UNCHANGED <<opgen, derived, storeVars>>

SnCheck ==
  /\ pc = "snCheck"
  /\ \/ gen # opgen /\ result' = "cancelled" /\ Goto("snDone")
     \/ gen = opgen /\ Goto("snCommit") /\ UNCHANGED result
  /\ SnFrame
  /\ UNCHANGED <<opgen, derived, storeVars>>

\* Partition_Store_Commit copies the table to its scratch buffer after it has
\* derived the partition keys, and works on the copy from then on
SnCommit ==
  /\ pc = "snCommit"
  /\ Store!Request([key |-> derived, table |-> TableBuffer])
  /\ Goto("snWrite")
  /\ SnFrame
  /\ UNCHANGED <<opgen, derived, result>>

SnWrite ==
  /\ pc = "snWrite"
  /\ Store!Persist \/ UNCHANGED storeVars
  /\ Goto("snVerify")
  /\ SnFrame
  /\ UNCHANGED <<opgen, derived, result>>

\* mutant: the result of the commit is ignored
SnVerifyIgnored ==
  /\ pc = "snVerify"
  /\ Store!Answer
  /\ Goto("snOpen")
  /\ SnFrame
  /\ UNCHANGED <<opgen, derived, result>>

SnVerify ==
  /\ pc = "snVerify"
  /\ Store!Answer
  /\ \/ answer' = "ok" /\ Goto("snOpen") /\ UNCHANGED result
     \/ answer' = "failed" /\ result' = "storage" /\ Goto("snDone")
  /\ SnFrame
  /\ UNCHANGED <<opgen, derived>>

SnOpen == pc = "snOpen" /\ OpenIfCurrent("snDone")

SetNewKey == SnPolicy \/ SnSalt \/ SnGen \/ SnKdf \/ SnDerive \/ SnCheck
             \/ SnCommit \/ SnWrite \/ SnVerify \/ SnOpen

-----------------------------------------------------------------------------
(* Session_LoadTable(out). *)

\* CopyKey, one critical section
LdKey ==
  /\ pc = "ldKey"
  /\ \/ authd /\ derived' = skey /\ Goto("ldRead") /\ UNCHANGED result
     \/ ~authd /\ result' = "wrong" /\ Goto("ldDone") /\ UNCHANGED derived
  /\ UNCHANGED <<rx, screenGen, appVars, sesVars, line, modeVars, storeVars>>

\* Partition_Store_Load fills the caller's static buffer: with the table, or
\* with zeros when the tag does not verify
LdRead ==
  /\ pc = "ldRead"
  /\ Store!Load(derived)
  /\ result' = IF loaded' # None THEN "ok" ELSE "wrong"
  /\ LET table == IF loaded' # None THEN loaded' ELSE EmptyTable IN
       /\ rt' = IF st = "RETRIEVE"  THEN [rt EXCEPT !.table = table] ELSE rt
       /\ gn' = IF st = "GENERATE"  THEN [gn EXCEPT !.table = table] ELSE gn
       /\ cm' = IF st = "CHANGE_MK" THEN [cm EXCEPT !.work = table] ELSE cm
  /\ Goto("ldDone")
  /\ UNCHANGED <<rx, screenGen, appVars, sesVars, line, derived, fm, ma>>

LoadTable == LdKey \/ LdRead
=============================================================================

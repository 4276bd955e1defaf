-------------------------- MODULE PartitionStore ---------------------------
(***************************************************************************)
(* partition_store.c over flash_drv.c: two flash slots, A and B, each with *)
(* a header and an encrypted table.  The slot that is valid and carries    *)
(* the higher version is the device's content.  A commit erases the OTHER  *)
(* slot, programs header and table, reads the slot back, and only then     *)
(* makes it the active one.                                                *)
(*                                                                         *)
(* One half of a slot (header or table) is an abstract value: Erased, Torn *)
(* (anything that belongs to no complete write: an interrupted erase or    *)
(* write, older firmware's layout) or an image.  An image stands for the   *)
(* bytes one commit computes: version, key (salt, iterations, auth, tag)   *)
(* and table; the IV, the tag and the CRC are functions of those, so the   *)
(* CRC of a slot matches exactly when header and table are of one image.   *)
(*                                                                         *)
(* The flash driver never reads the controller's error flags: an erase or  *)
(* a write may do nothing, or part of its work, and still return.  A power *)
(* loss in the middle of an operation leaves one of the same outcomes, so  *)
(* PowerLoss between two steps also covers a loss inside one.              *)
(***************************************************************************)
EXTENDS Integers

CONSTANTS
  Keys,        \* one element per derived key (with its salt and auth value)
  Tables,      \* the password tables
  MaxVersion,  \* bound on the version counter (a 32-bit field in the code)
  Erased,      \* a half that reads all ones
  Torn,        \* a half that belongs to no complete write
  None         \* no active partition, no result

Slots    == {"A", "B"}
Versions == 1..MaxVersion
Images   == [version : Versions, key : Keys, table : Tables]
Halves   == Images \cup {Erased, Torn}
Busy     == {"erase", "header", "table", "verify"}

ASSUME MaxVersionAssumption == MaxVersion \in Nat
ASSUME HalvesAssumption == /\ Erased # Torn
                           /\ Erased \notin Images
                           /\ Torn \notin Images
ASSUME NoneAssumption == /\ None \notin [slot : Slots, head : Images]
                         /\ None \notin Images
                         /\ None \notin Slots
                         /\ None \notin [key : Keys, table : Tables]
                         /\ None \notin Tables

VARIABLES
  flash,   \* the two sectors
  active,  \* s_active when s_have_active, else None
  step,    \* where a running Partition_Store_Commit is; "off" without power
  target,  \* its local target_sector / target_addr
  image,   \* its local header and s_commit_scratch
  answer,  \* what the last Partition_Store_Commit returned
  loaded   \* what the last Partition_Store_Load handed out

vars == <<flash, active, step, target, image, answer, loaded>>

TypeOK == /\ flash \in [Slots -> [head : Halves, body : Halves]]
          /\ active \in [slot : Slots, head : Images] \cup {None}
          /\ step \in Busy \cup {"idle", "off"}
          /\ target \in Slots \cup {None}
          /\ image \in Images \cup {None}
          /\ step \in Busy => target \in Slots /\ image \in Images
          /\ answer \in {"ok", "failed", None}
          /\ loaded \in Tables \cup {None}

-----------------------------------------------------------------------------
(* Slots. *)

Other(s) == IF s = "A" THEN "B" ELSE "A"

\* ReadSlot, ValidateCrc: the magic is there and the CRC covers both halves
Valid(s) == /\ flash[s].head \in Images
            /\ flash[s].body = flash[s].head

Holds(s, i) == flash[s].head = i /\ flash[s].body = i

\* mutant: A whenever it is valid, the versions are not compared
ChoiceFirstValid == IF Valid("A") THEN "A" ELSE IF Valid("B") THEN "B" ELSE None

\* the slot Partition_Store_Init selects
Choice == IF Valid("A") /\ (Valid("B") => flash["A"].head.version >= flash["B"].head.version)
            THEN "A"
            ELSE IF Valid("B") THEN "B" ELSE None

\* mutants: the branches of the target swapped; the version not advanced
CommitInPlace     == IF active = None THEN "A" ELSE active.slot
CommitSameVersion == IF active = None THEN 1 ELSE active.head.version

\* the slot and the version a commit writes
CommitTarget  == IF active = None THEN "A" ELSE Other(active.slot)
CommitVersion == IF active = None THEN 1 ELSE active.head.version + 1

\* flash cells only change from 1 to 0 between two erases: programming a
\* half that already holds the same bytes changes nothing, programming over
\* other bytes ruins them, and either may silently do nothing
EraseOutcomes(h) == {h, Torn, Erased}
WriteOutcomes(h, new) == IF h = new THEN {h}
                         ELSE IF h \in {Erased, Torn} THEN {h, Torn, new}
                         ELSE {h, Torn}

-----------------------------------------------------------------------------
(* Operations. *)

\* a device as shipped, or one that held another firmware's partitions
Init == /\ flash \in [Slots -> {[head |-> h, body |-> h] : h \in {Erased, Torn}}]
        /\ active = None
        /\ step = "off"
        /\ target = None
        /\ image = None
        /\ answer = None
        /\ loaded = None

\* at boot, and again each time the main loop passes through INIT
Partition_Store_Init ==
  /\ step \in {"off", "idle"}
  /\ active' = IF Choice = None THEN None ELSE [slot |-> Choice, head |-> flash[Choice].head]
  /\ step' = "idle"
  /\ UNCHANGED <<flash, target, image, answer, loaded>>

\* the tag is an HMAC, keyed by enc_key, over the header in RAM and the table
\* in flash: it verifies when both are of one image and the key is its key
Partition_Store_Load(k) ==
  /\ step = "idle"
  /\ loaded' = IF /\ active # None
                  /\ flash[active.slot].body = active.head
                  /\ active.head.key = k
                 THEN active.head.table ELSE None
  /\ UNCHANGED <<flash, active, step, target, image, answer>>

\* from the entry of Partition_Store_Commit to its first flash operation
CommitBegin(k, t) ==
  /\ step = "idle"
  /\ CommitVersion <= MaxVersion
  /\ target' = CommitTarget
  /\ image' = [version |-> CommitVersion, key |-> k, table |-> t]
  /\ step' = "erase"
  /\ UNCHANGED <<flash, active, answer, loaded>>

EraseSector ==
  /\ step = "erase"
  /\ \E h \in EraseOutcomes(flash[target].head), b \in EraseOutcomes(flash[target].body) :
       flash' = [flash EXCEPT ![target] = [head |-> h, body |-> b]]
  /\ step' = "header"
  /\ UNCHANGED <<active, target, image, answer, loaded>>

WriteHeader ==
  /\ step = "header"
  /\ \E h \in WriteOutcomes(flash[target].head, image) :
       flash' = [flash EXCEPT ![target].head = h]
  /\ step' = "table"
  /\ UNCHANGED <<active, target, image, answer, loaded>>

WriteTable ==
  /\ step = "table"
  /\ \E b \in WriteOutcomes(flash[target].body, image) :
       flash' = [flash EXCEPT ![target].body = b]
  /\ step' = "verify"
  /\ UNCHANGED <<active, target, image, answer, loaded>>

\* mutant: whatever is in the slot, if valid, is taken for the new image
ReadBackAnyValid == Valid(target)

\* "Trust flash, not the write calls"
ReadBackOk == Valid(target) /\ flash[target].head.version = image.version

ReadBack ==
  /\ step = "verify"
  /\ active' = IF ReadBackOk THEN [slot |-> target, head |-> flash[target].head] ELSE active
  /\ answer' = IF ReadBackOk THEN "ok" ELSE "failed"
  /\ step' = "idle"
  /\ UNCHANGED <<flash, target, image, loaded>>

\* the flash stays, everything else is RAM
PowerLoss ==
  /\ step # "off"
  /\ active' = None
  /\ step' = "off"
  /\ target' = None
  /\ image' = None
  /\ answer' = None
  /\ loaded' = None
  /\ UNCHANGED flash

Next == \/ Partition_Store_Init
        \/ \E k \in Keys : Partition_Store_Load(k)
        \/ \E k \in Keys, t \in Tables : CommitBegin(k, t)
        \/ EraseSector
        \/ WriteHeader
        \/ WriteTable
        \/ ReadBack
        \/ PowerLoss

Spec == Init /\ [][Next]_vars

-----------------------------------------------------------------------------
(* Safety. *)

\* The active partition is never touched (partition_store.h): whatever a
\* commit is doing to the other slot, the slot s_active names still holds, in
\* flash, the header RAM remembers and the table that belongs to it.
ActiveSealed == active # None => Holds(active.slot, active.head)

\* RAM and a reboot agree on which partition counts: no valid slot is newer
\* than the active one, except the one a commit has written and is about to
\* verify.  Otherwise a commit would overwrite the newest partition.
NewestIsActive ==
  step # "off" => \A s \in Slots :
    Valid(s) => \/ active # None /\ flash[s].head.version <= active.head.version
                \/ step \in {"table", "verify"} /\ s = target /\ Holds(s, image)

\* The slot a damaged newest partition falls back to is exactly one commit
\* older: versions of two valid slots differ by one, so Init never has to
\* break a tie and a fallback never loses more than the last change.
FallbackIsOneCommitBack ==
  Valid("A") /\ Valid("B") =>
    \/ flash["A"].head.version = flash["B"].head.version + 1
    \/ flash["B"].head.version = flash["A"].head.version + 1

-----------------------------------------------------------------------------
(* The inductive invariant behind the three. *)

\* a running commit writes the slot it chose from the s_active it still sees
CommitAims == step \in Busy => target = CommitTarget /\ image.version = CommitVersion

\* what a valid slot can be while the device has power
SlotsExplained ==
  step # "off" => \A s \in Slots :
    Valid(s) =>
      \/ active # None /\ s = active.slot
      \/ /\ active # None
         /\ s = Other(active.slot)
         /\ flash[s].head.version + 1 = active.head.version
      \/ step \in {"table", "verify"} /\ s = target /\ Holds(s, image)

\* The three properties above with what makes them inductive: the slot a
\* commit writes is derived from s_active, every valid slot is the active
\* one, its predecessor or the image being committed, and RAM is empty
\* while the power is off.
IInv == /\ TypeOK
        /\ ActiveSealed
        /\ FallbackIsOneCommitBack
        /\ CommitAims
        /\ SlotsExplained
        /\ step = "off" => active = None

-----------------------------------------------------------------------------
(* Refinement: the two slots implement one atomic durable cell. *)

ContentOf(i) == [key |-> i.key, table |-> i.table]

cellBar    == IF Choice = None THEN None ELSE ContentOf(flash[Choice].head)
pendingBar == IF step \in Busy THEN ContentOf(image) ELSE None
appliedBar == step \in {"table", "verify"} /\ Holds(target, image)

Atomic == INSTANCE AtomicStore WITH cell <- cellBar, pending <- pendingBar, applied <- appliedBar

\* A commit is atomic and durable: every behaviour of the two slots, with
\* faulty flash operations and power losses at any step, is one of a cell
\* that commits replace in a single step; "ok" is answered exactly when the
\* new content is durable and "failed" exactly when the old one still is,
\* and a load returns the durable table, to its key only.
AtomicSpec == Atomic!Spec
=============================================================================

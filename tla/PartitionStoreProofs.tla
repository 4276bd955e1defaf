------------------------ MODULE PartitionStoreProofs ------------------------
(***************************************************************************)
(* Proofs about PartitionStore, for every set of keys and tables and every *)
(* bound on the version counter.                                           *)
(***************************************************************************)
EXTENDS PartitionStore, TLAPS

\* The two slots: the other slot is the other slot.
LEMMA OtherSlot == \A s \in Slots : /\ Other(s) \in Slots
                                    /\ Other(s) # s
                                    /\ \A r \in Slots : r = s \/ r = Other(s)
BY DEF Slots, Other

\* Types of what one step computes.
LEMMA OutcomeTypes ==
  ASSUME NEW h \in Halves, NEW i \in Images
  PROVE  /\ EraseOutcomes(h) \subseteq Halves
         /\ WriteOutcomes(h, i) \subseteq Halves
BY DEF EraseOutcomes, WriteOutcomes, Halves

\* Partition_Store_Init selects a valid slot, or none when there is none.
LEMMA ChoiceType == /\ Choice \in Slots \cup {None}
                    /\ Choice # None => Valid(Choice)
                    /\ Choice = None => \A s \in Slots : ~Valid(s)
BY NoneAssumption DEF Choice, Slots

LEMMA InitTypeOK == Init => TypeOK
BY DEF Init, TypeOK, Halves, Busy

LEMMA NextTypeOK == TypeOK /\ [Next]_vars => TypeOK'
<1> SUFFICES ASSUME TypeOK, [Next]_vars PROVE TypeOK'
  OBVIOUS
<1> USE NoneAssumption
<1>1. CASE Partition_Store_Init
  <2>1. Choice # None => [slot |-> Choice, head |-> flash[Choice].head] \in [slot : Slots, head : Images]
    BY ChoiceType DEF Valid
  <2> QED BY <1>1, <2>1 DEF Partition_Store_Init, TypeOK, Busy
<1>2. ASSUME NEW k \in Keys, Partition_Store_Load(k) PROVE TypeOK'
  <2>1. active # None => active.head.table \in Tables
    BY DEF TypeOK, Images
  <2> QED BY <1>2, <2>1 DEF Partition_Store_Load, TypeOK, Busy
<1>3. ASSUME NEW k \in Keys, NEW t \in Tables, CommitBegin(k, t) PROVE TypeOK'
  <2>1. CommitTarget \in Slots
    BY OtherSlot DEF CommitTarget, TypeOK, Slots
  <2>2. CommitVersion \in Versions
    BY <1>3, MaxVersionAssumption DEF CommitBegin, CommitVersion, TypeOK, Images, Versions
  <2>3. [version |-> CommitVersion, key |-> k, table |-> t] \in Images
    BY <2>2 DEF Images
  <2> QED BY <1>3, <2>1, <2>3 DEF CommitBegin, TypeOK, Busy
<1>4. CASE EraseSector
  BY <1>4, OutcomeTypes DEF EraseSector, TypeOK, EraseOutcomes, Halves, Busy
<1>5. CASE WriteHeader
  BY <1>5, OutcomeTypes DEF WriteHeader, TypeOK, Busy
<1>6. CASE WriteTable
  BY <1>6, OutcomeTypes DEF WriteTable, TypeOK, Busy
<1>7. CASE ReadBack
  <2>1. ReadBackOk => [slot |-> target, head |-> flash[target].head] \in [slot : Slots, head : Images]
    BY <1>7 DEF ReadBackOk, Valid, ReadBack, TypeOK, Busy
  <2> QED BY <1>7, <2>1 DEF ReadBack, TypeOK, Busy
<1>8. CASE PowerLoss
  BY <1>8 DEF PowerLoss, TypeOK, Busy
<1>9. CASE UNCHANGED vars
  BY <1>9 DEF vars, TypeOK
<1> QED BY <1>1, <1>2, <1>3, <1>4, <1>5, <1>6, <1>7, <1>8, <1>9 DEF Next

\* The variables of PartitionStore keep their types.
THEOREM TypeCorrect == Spec => []TypeOK
BY InitTypeOK, NextTypeOK, PTL DEF Spec

-----------------------------------------------------------------------------
(* Safety. *)

FlashOperation == EraseSector \/ WriteHeader \/ WriteTable

\* A running commit writes the slot that s_active does not name.
LEMMA TargetNotActive ==
  ASSUME IInv, step \in Busy
  PROVE  /\ target \in Slots
         /\ image \in Images
         /\ active = None => target = "A" /\ image.version = 1
         /\ active # None => /\ target = Other(active.slot)
                            /\ active.slot = Other(target)
                            /\ active.slot # target
                            /\ image.version = active.head.version + 1
BY DEF IInv, CommitAims, CommitTarget, CommitVersion, TypeOK, Other, Slots

\* Versions are numbers.
LEMMA VersionsAreNumbers ==
  ASSUME TypeOK
  PROVE  /\ active # None => active.head.version \in Nat
         /\ \A s \in Slots : Valid(s) => flash[s].head.version \in Nat
BY DEF TypeOK, Valid, Images, Versions

\* While the power is on, the versions of two valid slots are neighbours.
LEMMA NeighbouringVersions ==
  TypeOK /\ ActiveSealed /\ CommitAims /\ SlotsExplained /\ step # "off"
    => FallbackIsOneCommitBack
<1> SUFFICES ASSUME TypeOK, ActiveSealed, CommitAims, SlotsExplained, step # "off",
                    Valid("A"), Valid("B")
             PROVE  FallbackIsOneCommitBack
  BY DEF FallbackIsOneCommitBack
<1>1. active # None
  BY DEF SlotsExplained, Slots
<1>2. active.slot \in {"A", "B"} /\ Holds(active.slot, active.head)
  BY <1>1 DEF TypeOK, ActiveSealed, Slots
<1>3. PICK s \in Slots : s # active.slot
  BY DEF Slots
<1>4. s = Other(active.slot)
  BY <1>2, <1>3 DEF Slots, Other
<1>5. CASE flash[s].head.version + 1 = active.head.version
  BY <1>2, <1>3, <1>4, <1>5 DEF FallbackIsOneCommitBack, Other, Holds, Slots
<1>6. CASE step \in {"table", "verify"} /\ Holds(s, image)
  <2>1. image.version = active.head.version + 1
    BY <1>1, <1>6 DEF CommitAims, CommitVersion, Busy
  <2> QED BY <1>2, <1>3, <1>6, <2>1 DEF FallbackIsOneCommitBack, Holds, Slots
<1> QED BY <1>3, <1>5, <1>6 DEF SlotsExplained, Slots

LEMMA InitIInv == Init => IInv
<1> SUFFICES ASSUME Init PROVE IInv
  OBVIOUS
<1>1. TypeOK
  BY InitTypeOK
<1>2. \A s \in Slots : ~Valid(s)
  BY HalvesAssumption DEF Init, Valid
<1> QED BY <1>1, <1>2 DEF Init, IInv, ActiveSealed, FallbackIsOneCommitBack, CommitAims,
                          SlotsExplained, Slots, Busy

\* A flash operation leaves the other slot alone, and the target it leaves
\* valid was valid before with the same header, or now holds the image.
LEMMA TargetOutcome ==
  ASSUME IInv, FlashOperation
  PROVE  /\ step \in Busy
         /\ \A s \in Slots : s # target => flash'[s] = flash[s]
         /\ Valid(target)' => \/ Valid(target) /\ flash'[target] = flash[target]
                              \/ Holds(target, image)' /\ step' \in {"table", "verify"}
         /\ step # "erase" /\ Holds(target, image) => flash' = flash
         /\ step' \in {"header", "table", "verify"}
         /\ step \in {"table", "verify"} => step' \in {"table", "verify"}
         /\ UNCHANGED <<active, target, image>>
<1>0. step \in Busy /\ target \in Slots /\ image \in Images /\ TypeOK
  BY DEF FlashOperation, EraseSector, WriteHeader, WriteTable, Busy, IInv, TypeOK
<1>1. CASE EraseSector
  BY <1>0, <1>1, HalvesAssumption
     DEF EraseSector, EraseOutcomes, Valid, Holds, TypeOK
<1>2. CASE WriteHeader
  BY <1>0, <1>2, HalvesAssumption
     DEF WriteHeader, WriteOutcomes, Valid, Holds, TypeOK
<1>3. CASE WriteTable
  BY <1>0, <1>3, HalvesAssumption
     DEF WriteTable, WriteOutcomes, Valid, Holds, TypeOK
<1> QED BY <1>1, <1>2, <1>3 DEF FlashOperation

LEMMA FlashOperationIInv == IInv /\ FlashOperation => IInv'
<1> SUFFICES ASSUME IInv, FlashOperation PROVE IInv'
  OBVIOUS
<1> USE TargetOutcome, TargetNotActive
<1>1. TypeOK'
  BY NextTypeOK DEF IInv, FlashOperation, Next
<1>2. ActiveSealed'
  BY DEF IInv, ActiveSealed, Holds, TypeOK
<1>3. CommitAims'
  BY DEF IInv, CommitAims, CommitTarget, CommitVersion, Busy
<1>4. SlotsExplained'
  <2> SUFFICES ASSUME NEW s \in Slots, Valid(s)'
      PROVE  \/ active # None /\ s = active.slot
             \/ /\ active # None
                /\ s = Other(active.slot)
                /\ flash'[s].head.version + 1 = active.head.version
             \/ step' \in {"table", "verify"} /\ s = target /\ Holds(s, image)'
    BY DEF SlotsExplained
  <2>1. CASE s # target
    BY <2>1 DEF IInv, SlotsExplained, Valid, Busy
  <2>2. CASE s = target
    <3>1. CASE Valid(target) /\ flash'[target] = flash[target]
      BY <2>2, <3>1 DEF IInv, SlotsExplained, Holds, Busy
    <3>2. CASE Holds(target, image)' /\ step' \in {"table", "verify"}
      BY <2>2, <3>2 DEF Holds
    <3> QED BY <2>2, <3>1, <3>2
  <2> QED BY <2>1, <2>2
<1>5. FallbackIsOneCommitBack'
  <2>1. (step # "off")'
    OBVIOUS
  <2> QED BY <1>1, <1>2, <1>3, <1>4, <2>1, NeighbouringVersions, PTL
<1> QED BY <1>1, <1>2, <1>3, <1>4, <1>5 DEF IInv

\* While no commit runs, Partition_Store_Init finds the active slot again.
LEMMA ChoiceIsActive ==
  ASSUME IInv, step = "idle"
  PROVE  Choice = IF active = None THEN None ELSE active.slot
<1>1. CASE active = None
  BY <1>1, ChoiceType DEF IInv, SlotsExplained
<1>2. CASE active # None
  <2>1. /\ active.slot \in Slots
        /\ Valid(active.slot)
        /\ flash[active.slot].head = active.head
    BY <1>2 DEF IInv, TypeOK, ActiveSealed, Holds, Valid
  <2>2. Valid(Other(active.slot)) =>
          flash[Other(active.slot)].head.version + 1 = active.head.version
    BY <1>2, <2>1, OtherSlot DEF IInv, SlotsExplained
  <2>3. \A s \in Slots : Valid(s) => flash[s].head.version \in Nat
    BY VersionsAreNumbers DEF IInv
  <2> QED BY <1>2, <2>1, <2>2, <2>3 DEF Choice, Slots, Other
<1> QED BY <1>1, <1>2

LEMMA StoreInitIInv == IInv /\ Partition_Store_Init => IInv'
<1> SUFFICES ASSUME IInv, Partition_Store_Init PROVE IInv'
  OBVIOUS
<1> USE DEF Partition_Store_Init
<1>1. TypeOK'
  BY NextTypeOK DEF IInv, Next
<1>2. ActiveSealed'
  BY ChoiceType, NoneAssumption DEF ActiveSealed, Holds, Valid
<1>3. CommitAims' /\ FallbackIsOneCommitBack'
  BY DEF IInv, CommitAims, FallbackIsOneCommitBack, Valid, Busy
<1>4. SlotsExplained'
  <2> SUFFICES ASSUME NEW s \in Slots, Valid(s)
      PROVE  /\ active' # None
             /\ \/ s = active'.slot
                \/ /\ s = Other(active'.slot)
                   /\ flash[s].head.version + 1 = active'.head.version
    BY DEF SlotsExplained, Valid
  <2>1. Choice \in Slots /\ Choice # None /\ Valid(Choice)
    BY ChoiceType, NoneAssumption
  <2>2. active' = [slot |-> Choice, head |-> flash[Choice].head] /\ active' # None
    BY <2>1, <1>1, NoneAssumption DEF TypeOK, Valid
  <2>3. s # Choice => flash[s].head.version + 1 = flash[Choice].head.version
    BY <2>1, VersionsAreNumbers DEF IInv, FallbackIsOneCommitBack, Choice, Slots
  <2> QED BY <2>1, <2>2, <2>3, OtherSlot
<1> QED BY <1>1, <1>2, <1>3, <1>4 DEF IInv

LEMMA CommitBeginIInv ==
  ASSUME IInv, NEW k \in Keys, NEW t \in Tables, CommitBegin(k, t)
  PROVE  IInv'
<1> USE DEF CommitBegin
<1>1. TypeOK'
  BY NextTypeOK DEF IInv, Next
<1>2. CommitAims'
  BY DEF CommitAims, CommitTarget, CommitVersion
<1>3. SlotsExplained'
  BY DEF IInv, SlotsExplained, Valid
<1> QED BY <1>1, <1>2, <1>3 DEF IInv, ActiveSealed, FallbackIsOneCommitBack, Holds, Valid

\* The read-back accepts the target only when it holds the image: a stale
\* partition left by an erase and writes that did nothing is one version
\* older than the active one, and so two older than the image.
LEMMA ReadBackSeesImage ==
  ASSUME IInv, step = "verify"
  PROVE  ReadBackOk <=> Holds(target, image)
<1> USE TargetNotActive DEF Busy
<1>1. ASSUME Holds(target, image) PROVE ReadBackOk
  BY <1>1 DEF ReadBackOk, Valid, Holds
<1>2. ASSUME ReadBackOk PROVE Holds(target, image)
  <2>1. Valid(target) /\ flash[target].head.version = image.version
    BY <1>2 DEF ReadBackOk
  <2>2. active # None => active.head.version \in Nat
    BY VersionsAreNumbers DEF IInv
  <2> QED BY <2>1, <2>2 DEF IInv, SlotsExplained
<1> QED BY <1>1, <1>2

LEMMA ReadBackIInv == IInv /\ ReadBack => IInv'
<1> SUFFICES ASSUME IInv, ReadBack PROVE IInv'
  OBVIOUS
<1> USE DEF ReadBack
<1>0. step = "verify" /\ step' = "idle" /\ flash' = flash
  OBVIOUS
<1>1. TypeOK'
  BY NextTypeOK DEF IInv, Next
<1>2. CommitAims' /\ FallbackIsOneCommitBack'
  BY DEF IInv, CommitAims, FallbackIsOneCommitBack, Valid, Busy
<1>3. CASE Holds(target, image)
  <2>1. active' = [slot |-> target, head |-> image] /\ active' # None
    BY <1>0, <1>3, <1>1, ReadBackSeesImage, TargetNotActive, NoneAssumption DEF Holds, Busy
  <2>2. ActiveSealed'
    BY <1>0, <1>3, <2>1 DEF ActiveSealed, Holds
  <2>3. SlotsExplained'
    <3> SUFFICES ASSUME NEW s \in Slots, Valid(s), s # target
        PROVE  s = Other(target) /\ flash[s].head.version + 1 = image.version
      BY <1>0, <2>1 DEF SlotsExplained, Valid
    <3>1. active # None /\ (s = active.slot \/ s = Other(active.slot))
      BY <1>0 DEF IInv, SlotsExplained
    <3>2. s = active.slot /\ s = Other(target)
      BY <1>0, <3>1, TargetNotActive DEF Busy
    <3> QED BY <1>0, <3>1, <3>2, TargetNotActive DEF IInv, ActiveSealed, Holds, Busy
  <2> QED BY <1>0, <1>1, <1>2, <2>2, <2>3 DEF IInv
<1>4. CASE ~Holds(target, image)
  <2>1. active' = active
    BY <1>0, <1>4, ReadBackSeesImage
  <2>2. SlotsExplained'
    BY <1>0, <1>4, <2>1 DEF IInv, SlotsExplained, Valid
  <2> QED BY <1>0, <1>1, <1>2, <2>1, <2>2 DEF IInv, ActiveSealed, Holds
<1> QED BY <1>3, <1>4

LEMMA NextIInv == IInv /\ [Next]_vars => IInv'
<1> SUFFICES ASSUME IInv, [Next]_vars PROVE IInv'
  OBVIOUS
<1>0. TypeOK'
  BY NextTypeOK DEF IInv
<1>1. CASE Partition_Store_Init
  BY <1>1, StoreInitIInv
<1>2. ASSUME NEW k \in Keys, Partition_Store_Load(k) PROVE IInv'
  BY <1>0, <1>2 DEF Partition_Store_Load, IInv, ActiveSealed, FallbackIsOneCommitBack, CommitAims,
                    CommitTarget, CommitVersion, SlotsExplained, Valid, Holds
<1>3. ASSUME NEW k \in Keys, NEW t \in Tables, CommitBegin(k, t) PROVE IInv'
  BY <1>3, CommitBeginIInv
<1>4. CASE FlashOperation
  BY <1>4, FlashOperationIInv
<1>5. CASE ReadBack
  BY <1>5, ReadBackIInv
<1>6. CASE PowerLoss
  BY <1>0, <1>6 DEF PowerLoss, IInv, ActiveSealed, FallbackIsOneCommitBack, CommitAims,
                    SlotsExplained, Valid, Busy
<1>7. CASE UNCHANGED vars
  BY <1>0, <1>7 DEF vars, IInv, ActiveSealed, FallbackIsOneCommitBack, CommitAims,
                    CommitTarget, CommitVersion, SlotsExplained, Valid, Holds
<1> QED BY <1>1, <1>2, <1>3, <1>4, <1>5, <1>6, <1>7 DEF Next, FlashOperation

\* The inductive invariant holds in every reachable state.
THEOREM Invariant == Spec => []IInv
BY InitIInv, NextIInv, PTL DEF Spec

\* The slot s_active names is intact in flash at all times, whatever a
\* commit, a flash fault or a power loss does to the other slot.
THEOREM ActiveIsNeverTouched == Spec => []ActiveSealed
<1>1. IInv => ActiveSealed
  BY DEF IInv
<1> QED BY <1>1, Invariant, PTL

\* Two valid slots always are one commit apart.
THEOREM FallbackDistance == Spec => []FallbackIsOneCommitBack
<1>1. IInv => FallbackIsOneCommitBack
  BY DEF IInv
<1> QED BY <1>1, Invariant, PTL

\* RAM and a reboot agree on the newest partition.
THEOREM RamMatchesFlash == Spec => []NewestIsActive
<1>1. IInv => NewestIsActive
  <2> SUFFICES ASSUME IInv, step # "off", NEW s \in Slots, Valid(s)
      PROVE  \/ active # None /\ flash[s].head.version <= active.head.version
             \/ step \in {"table", "verify"} /\ s = target /\ Holds(s, image)
    BY DEF NewestIsActive
  <2>1. active # None => active.head.version \in Nat
    BY VersionsAreNumbers DEF IInv
  <2>2. flash[s].head.version \in Nat
    BY VersionsAreNumbers DEF IInv
  <2>3. active # None /\ s = active.slot => flash[s].head = active.head
    BY DEF IInv, ActiveSealed, Holds
  <2> QED BY <2>1, <2>2, <2>3 DEF IInv, SlotsExplained
<1> QED BY <1>1, Invariant, PTL

-----------------------------------------------------------------------------
(* Refinement. *)

\* The slot a reboot would select, at every moment: the active slot until the
\* target holds the image, and the target from then on.
LEMMA ChoiceDuringCommit ==
  ASSUME IInv, step \in Busy
  PROVE  Choice = IF appliedBar THEN target
                  ELSE IF active = None THEN None ELSE active.slot
<1> USE TargetNotActive
<1>0. /\ \A s \in Slots : Valid(s) => flash[s].head.version \in Nat
      /\ active # None => /\ active.head.version \in Nat
                         /\ active.slot \in Slots
                         /\ Valid(active.slot)
                         /\ flash[active.slot].head = active.head
  BY VersionsAreNumbers DEF IInv, TypeOK, ActiveSealed, Holds, Valid
<1>1. CASE appliedBar
  <2>1. Valid(target) /\ flash[target].head = image
    BY <1>1 DEF appliedBar, Holds, Valid
  <2>2. \A s \in Slots : Valid(s) /\ s # target => flash[s].head.version < image.version
    BY <1>0, OtherSlot DEF IInv, SlotsExplained, Busy
  <2> QED BY <1>0, <1>1, <2>1, <2>2 DEF Choice, Slots
<1>2. CASE ~appliedBar
  <2>1. \A s \in Slots : Valid(s) =>
          /\ active # None
          /\ s # active.slot => flash[s].head.version < active.head.version
    BY <1>0, <1>2, OtherSlot DEF IInv, SlotsExplained, appliedBar, Busy
  <2>2. CASE active = None
    BY <1>2, <2>1, <2>2, ChoiceType
  <2>3. CASE active # None
    BY <1>0, <1>2, <2>1, <2>3 DEF Choice, Slots
  <2> QED BY <2>2, <2>3
<1> QED BY <1>1, <1>2

\* What the abstract cell holds while the store is idle: what s_active says.
LEMMA CellWhenIdle ==
  IInv /\ step = "idle" =>
    cellBar = IF active = None THEN None ELSE ContentOf(active.head)
<1> SUFFICES ASSUME IInv, step = "idle"
             PROVE  cellBar = IF active = None THEN None ELSE ContentOf(active.head)
  OBVIOUS
<1>1. active # None => active.slot # None /\ flash[active.slot].head = active.head
  BY NoneAssumption DEF IInv, ActiveSealed, Holds, TypeOK
<1> QED BY <1>1, ChoiceIsActive DEF cellBar

\* The abstract cell during a commit.
LEMMA CellDuringCommit ==
  IInv /\ step \in Busy =>
    cellBar = IF appliedBar THEN ContentOf(image)
              ELSE IF active = None THEN None ELSE ContentOf(active.head)
<1> SUFFICES ASSUME IInv, step \in Busy
             PROVE  cellBar = IF appliedBar THEN ContentOf(image)
                              ELSE IF active = None THEN None ELSE ContentOf(active.head)
  OBVIOUS
<1>1. active # None => active.slot # None /\ flash[active.slot].head = active.head
  BY NoneAssumption DEF IInv, ActiveSealed, Holds, TypeOK
<1>2. target # None
  BY TargetNotActive, NoneAssumption
<1>3. appliedBar => flash[target].head = image
  BY DEF appliedBar, Holds
<1> QED BY <1>1, <1>2, <1>3, ChoiceDuringCommit DEF cellBar

\* A content is not None.
LEMMA ContentIsNotNone == \A i \in Images : /\ ContentOf(i) \in Atomic!Contents
                                           /\ ContentOf(i) # None
BY NoneAssumption DEF ContentOf, Images, Atomic!Contents

LEMMA InitRefines == Init => Atomic!Init
<1> SUFFICES ASSUME Init PROVE Atomic!Init
  OBVIOUS
<1>1. Choice = None
  BY HalvesAssumption, ChoiceType DEF Init, Valid
<1> QED BY <1>1 DEF Init, Atomic!Init, cellBar, pendingBar, appliedBar, Busy

\* A step that leaves the flash alone leaves the cell alone.
LEMMA SameFlashSameCell == flash' = flash => cellBar' = cellBar
BY DEF cellBar, Choice, Valid

LEMMA FlashOperationRefines ==
  ASSUME IInv, FlashOperation
  PROVE  Atomic!Persist \/ UNCHANGED Atomic!vars
<1>0. /\ step \in Busy
      /\ step' \in Busy
      /\ UNCHANGED <<active, target, image, answer, loaded>>
  BY TargetOutcome DEF FlashOperation, EraseSector, WriteHeader, WriteTable, Busy
<1>1. IInv'
  BY FlashOperationIInv
<1>2. cellBar = IF appliedBar THEN ContentOf(image)
                ELSE IF active = None THEN None ELSE ContentOf(active.head)
  BY <1>0, CellDuringCommit
<1>3. cellBar' = IF appliedBar' THEN ContentOf(image)
                 ELSE IF active = None THEN None ELSE ContentOf(active.head)
  <2>1. (step \in Busy)'
    BY <1>0
  <2>2. (cellBar = IF appliedBar THEN ContentOf(image)
                   ELSE IF active = None THEN None ELSE ContentOf(active.head))'
    BY <1>1, <2>1, CellDuringCommit, PTL
  <2> QED BY <1>0, <2>2 DEF ContentOf
<1>4. pendingBar = ContentOf(image) /\ pendingBar' = ContentOf(image) /\ ContentOf(image) # None
  BY <1>0, ContentIsNotNone, TargetNotActive DEF pendingBar, ContentOf
<1>5. appliedBar => appliedBar'
  BY <1>0, TargetOutcome DEF appliedBar, Holds
<1>6. appliedBar \in BOOLEAN /\ appliedBar' \in BOOLEAN
  BY DEF appliedBar
<1>7. CASE appliedBar' = appliedBar
  BY <1>0, <1>2, <1>3, <1>4, <1>7 DEF Atomic!vars
<1>8. CASE ~appliedBar /\ appliedBar'
  BY <1>0, <1>3, <1>4, <1>6, <1>8 DEF Atomic!Persist
<1> QED BY <1>5, <1>6, <1>7, <1>8

LEMMA StepRefines == IInv /\ [Next]_vars => [Atomic!Next]_Atomic!vars
<1> SUFFICES ASSUME IInv, [Next]_vars PROVE [Atomic!Next]_Atomic!vars
  OBVIOUS
<1>1. CASE Partition_Store_Init
  BY <1>1, SameFlashSameCell
     DEF Partition_Store_Init, Atomic!vars, pendingBar, appliedBar, Busy
<1>2. ASSUME NEW k \in Keys, Partition_Store_Load(k) PROVE Atomic!Load(k)
  <2>1. step = "idle" /\ step' = step /\ flash' = flash
    BY <1>2 DEF Partition_Store_Load
  <2>2. cellBar = IF active = None THEN None ELSE ContentOf(active.head)
    BY <2>1, CellWhenIdle
  <2>3. active # None => /\ flash[active.slot].body = active.head
                         /\ ContentOf(active.head) # None
    BY ContentIsNotNone DEF IInv, ActiveSealed, Holds, TypeOK
  <2>4. loaded' = IF cellBar # None /\ cellBar.key = k THEN cellBar.table ELSE None
    BY <1>2, <2>2, <2>3 DEF Partition_Store_Load, ContentOf
  <2> QED BY <1>2, <2>1, <2>4, SameFlashSameCell
          DEF Partition_Store_Load, Atomic!Load, pendingBar, appliedBar, Busy
<1>3. ASSUME NEW k \in Keys, NEW t \in Tables, CommitBegin(k, t)
      PROVE  \E c \in Atomic!Contents : Atomic!Request(c)
  <2>1. image' = [version |-> CommitVersion, key |-> k, table |-> t]
    BY <1>3 DEF CommitBegin
  <2>2. [key |-> k, table |-> t] \in Atomic!Contents
    BY DEF Atomic!Contents
  <2>3. pendingBar = None /\ pendingBar' = [key |-> k, table |-> t] /\ ~appliedBar'
    BY <1>3, <2>1 DEF CommitBegin, pendingBar, appliedBar, ContentOf, Busy
  <2>4. Atomic!Request([key |-> k, table |-> t])
    BY <1>3, <2>3, SameFlashSameCell DEF CommitBegin, Atomic!Request, appliedBar
  <2> QED BY <2>2, <2>4
<1>4. CASE FlashOperation
  BY <1>4, FlashOperationRefines DEF Atomic!Next
<1>5. CASE ReadBack
  <2>1. step = "verify" /\ flash' = flash
    BY <1>5 DEF ReadBack
  <2>2. pendingBar # None /\ pendingBar' = None /\ ~appliedBar'
    BY <1>5, <2>1, ContentIsNotNone, TargetNotActive DEF ReadBack, pendingBar, appliedBar, Busy
  <2>3. answer' = IF appliedBar THEN "ok" ELSE "failed"
    BY <1>5, <2>1, ReadBackSeesImage DEF ReadBack, appliedBar
  <2> QED BY <1>5, <2>1, <2>2, <2>3, SameFlashSameCell DEF ReadBack, Atomic!Answer, Atomic!Next, appliedBar
<1>6. CASE PowerLoss
  BY <1>6, SameFlashSameCell
     DEF PowerLoss, Atomic!PowerLoss, Atomic!Next, pendingBar, appliedBar, Busy
<1>7. CASE UNCHANGED vars
  BY <1>7, SameFlashSameCell DEF vars, Atomic!vars, pendingBar, appliedBar, Holds, Busy, ContentOf
<1> QED BY <1>1, <1>2, <1>3, <1>4, <1>5, <1>6, <1>7 DEF Next, FlashOperation, Atomic!Next

\* The two flash slots implement the atomic durable cell that the session
\* code relies on, for every set of keys and tables.
THEOREM Refinement == Spec => AtomicSpec
BY Invariant, InitRefines, StepRefines, PTL DEF Spec, AtomicSpec, Atomic!Spec
=============================================================================

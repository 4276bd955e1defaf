SPECIFICATION Spec
CONSTANTS
  k1 = k1
  k2 = k2
  t1 = t1
  t2 = t2
  Keys <- MCKeys
  Tables <- MCTables
  MaxVersion <- MCMaxVersion
  Erased = Erased
  Torn = Torn
  None = None
SYMMETRY Symmetry
INVARIANTS
  ActiveSealed
  NewestIsActive
  FallbackIsOneCommitBack
PROPERTY
  AtomicSpec

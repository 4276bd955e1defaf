SPECIFICATION Spec
CONSTANTS
  None = None
  BlockLen = 4
  LenOffset = 2
  DigestLen = 1
  CipherLen = 2
  CounterBase = 2
  WordBytes = 2
  Keys <- MCKeys
  Salts <- MCSalts
  Tables <- MCTables
  Iterations = 3
  Poll = 2
  Ivs <- MCIvs
  CrcChunk = 4
  MaxVersion = 2
INVARIANTS
  KeyIsReference
  OpensWithItsKeyOnly
  DamageIsSeen
  KeystreamUsedOnce
  CancelIsPrompt

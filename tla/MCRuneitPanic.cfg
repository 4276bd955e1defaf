SPECIFICATION Spec
CONSTANTS
  k1 = k1
  k2 = k2
  p1 = p1
  None = None
  MasterKeys <- MCOneKey
  OtherLines <- MCMenuLines
  NulKey = nul
  Salts <- MCSalts
  Ids <- MCTwoIds
  Passwords <- MCPasswords
  MaxPanics = 1
  PowerFails = TRUE
INVARIANTS
  SessionIsCurrent
  SessionMatchesStore
  LoginScreenIsFresh
  LockedScreenIsClean
  PrintedIsSaved
PROPERTIES
  SaveChangesOneEntry
  NewKeyKeepsTable

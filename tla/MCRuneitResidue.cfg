SPECIFICATION Spec
CONSTANTS
  k1 = k1
  k2 = k2
  p1 = p1
  None = None
  MasterKeys <- MCMasterKeys
  OtherLines <- MCMenuLines
  NulKey = nul
  Salts <- MCSalts
  Ids <- MCOneId
  Passwords <- MCPasswords
  MaxPanics = 1
  PowerFails = TRUE
INVARIANTS
  NothingStaysInRam

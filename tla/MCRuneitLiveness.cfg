SPECIFICATION FairSpec
CONSTANTS
  k1 = k1
  k2 = k2
  p1 = p1
  None = None
  MasterKeys <- MCOneKey
  OtherLines <- MCGenLines
  NulKey = nul
  Salts <- MCSalts
  Ids <- MCGenId
  Passwords <- MCPasswords
  MaxPanics = 2
  PowerFails = FALSE
PROPERTIES
  LockedEndsAtLogin

SPECIFICATION FairSpec
CONSTANTS
  StepMs = 2
  MaxRounds = 2
  MaxPanics = 2
INVARIANTS
  DarkWhenItMatters
  ChaseIsRemembered
PROPERTIES
  LockedGoesDark

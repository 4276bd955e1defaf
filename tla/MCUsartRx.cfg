SPECIFICATION FairSpec
CONSTANTS
  RxMax = 4
  LineMax = 3
  Caps = {2, 4}
  MaxPanics = 1
INVARIANTS
  LineIsTyped
  NothingOldIsTaken
PROPERTY
  LineIsTaken

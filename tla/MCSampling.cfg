SPECIFICATION FairSpec
CONSTANTS
  Samples = {0, 1, 2}
  RctCutoff = 2
  AptWindow = 3
  AptCutoff = 2
  FifoCap = 8
  MaxDrawBits = 8
  BlockSamples = 2
  MaxRounds = 4
  Timeout = 1
  Charsets = {3, 6}
  Lengths = {1, 2}
  MaxPanics = 1
INVARIANTS
  BlockIsWhole
  NoiseIsUsedOnce
  QueuesStayInside
  NoiseIsHealthy
  DrawsAreFairAndCheap
PROPERTIES
  SamplingEnds

SPECIFICATION Spec
CONSTANTS
    NLines = 2
    NReads = 2
    MaxStops = 2
INVARIANTS
    AnswersInStep
    NothingOnStaleElf
    BoardIsReleased
PROPERTY StopEnds
CHECK_DEADLOCK FALSE

SPECIFICATION Spec
CONSTANTS
    None = None
    Garbage = Garbage
    k1 = k1
    k2 = k2
    Keys <- MCKeys
    Entries = 4
    WindowSize = 3
    Typed <- MCTyped
    Ids = {2}
    Threshold = 3
    CharsetLen = 3
    MaxDraw = 3
    Length = 1
    TableWords = 2
    MaxRuns = 4
    MaxPanics = 1
    Tools <- AllTools
    Uses <- MCUses
    PowerWords <- MCPowerWords
INVARIANTS
    ScreenIsCurrent
    OnlyThisAttempt
    ShownEntryIsPrinted
    SavedIsReadBack
    TargetIsWritten
    PowerLossVerdict
PROPERTY VerdictIsTaken
CHECK_DEADLOCK FALSE

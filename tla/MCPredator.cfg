CONSTANTS
    Capital = 25
    MaxDrawdownPct = 8
    DailyLossPct = 4
    MaxConcurrent = 2
    PauseAfter = 2
    PauseDuration = 1
    Day = 1
    Symbols = 3
    Quantities = {1}
    MaxLoss = 1
    MaxGain = 1
    MaxHold = 1
    ExitPause = 1
    MaxEquity = 25
    MaxHeld = 1
SPECIFICATION FairSpec
INVARIANTS
    CountIsRight
    DrawdownIsBounded
PROPERTIES
    NoEntryWhileStopped
    PauseEnds
    ForcedExit

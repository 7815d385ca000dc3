CONSTANTS
    Capital = 10
    MaxDrawdown = 20
    Floor = 50
    PauseDuration = 1
    Cooldown = 1
    MinHold = 1
    BlockTimeout = 1
    StopLoss = 1
    TrailWidths <- Widths
    Fee = 0
    MaxGain = 2
    MaxMove = 2
    MaxTrades = 3
    MaxCrashes = 1
SPECIFICATION Spec
INVARIANTS
    DrawdownIsBounded
    HoldingIsBounded
PROPERTY
    EntriesFitTheRegime
CHECK_DEADLOCK FALSE

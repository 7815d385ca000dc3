CONSTANTS
    Gains <- PricePath
    MaxMove = 10
    MaxGap = 2
    StopLoss = 10
    Activation = 10
    Callback = 5
    MinHold = 4
    DecayStart = 5
    MaxHold = 9
SPECIFICATION Spec
INVARIANTS
    ProfitIsKept
    LossIsBounded
CHECK_DEADLOCK FALSE

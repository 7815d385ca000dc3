CONSTANTS
    HardStop = 3
    TakeProfit = 5
    MinMove = 1
    AlphaDecay = 2
    TimeLimit = 2
    FirstBucket = 2
    Bucket = 3
    Samples = 2
    MaxBuckets = 3
    Toxic = 68
    Critical = 86
    Start = 100
    Moves <- Steps
    Ticks <- OneThing
    Length = 4
    MaxConcurrent = 2
    MaxTrades = 2
    MaxWall = 4
    DefaultAtr = 4
    Lookback = 2
    Cost = 10
SPECIFICATION BacktestSpec
INVARIANTS
    LogAgreesWithManager
    TradeLossIsBounded
CHECK_DEADLOCK FALSE

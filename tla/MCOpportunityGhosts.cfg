CONSTANTS
    Shots <- Shots1
    Proximity = 2
    MinWall = 2
    MaxLifetime = 1
    LongLife = 2
    Window = 1
    Refills = 1
    RefillTime = 2
    Enabled = {"spoofhunter", "newtonian", "antirug"}
    QuoteAssets = {"USDT", "BTC"}
    SafeAssets = {"SOL", "BTC"}
    Leveraged = {"BTCUP"}
    Listed <- Listed1
    BaseAssets = {"SOL", "BTC"}
    QuoteOrder <- QuoteOrder1
    TrackedAssets = {"BTC", "ETH", "SOL"}
    AccelThreshold = 15
    Multiplier = 2
    Markets <- Markets1
    Books <- Books1
    Charts <- Charts1
    Skies <- Skies1
    RugAnswers <- RugAnswers1
    MinProfit = 80
    Fee = 3
    RetryAttempts = 2
SPECIFICATION PassSpec
INVARIANT
    GhostsAreVetoed

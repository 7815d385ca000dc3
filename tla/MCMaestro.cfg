CONSTANTS
    Weight <- Weights
    Required = {"brain"}
    Fallback = "WAIT"
    MinConfidence = 55
    Configured = {"brain", "shadowglass", "antirug_v3", "spoofhunter", "dreamer"}
    Imbalances <- Books
    Said <- Verdicts
    RequestMin <- Minima
    DefaultMode = "AND"
    Attempts = 2
    Burst = 1
    BaseRisk = 100
SPECIFICATION Spec
INVARIANTS
    OneOrderPerRequest
    OrdersAreJustified
PROPERTY EveryRequestIsAnswered

CONSTANTS
    Calls = {c1, c2, c3}
    FailureThreshold = 2
    Cooldown = 2
    OperatorActs = TRUE
    Attempts = 2
    Timeout = 2
    Deadline = 3
    MaxActs = 1
SPECIFICATION FanOutSpec
INVARIANTS
    TripInvariant
PROPERTIES
    NodeIsLeftAlone
    KeepsPromise
    Recovers
    FailingNodeIsCutOff

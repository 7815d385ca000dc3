CONSTANTS
    Levels = {1, 2, 3}
    Sizes = {0, 1, 2}
    Depth = 2
    MaxChanges = 4
    MaxDrops = 2
    MaxQueue = 2
SPECIFICATION FeedSpec
INVARIANTS
    WrongOnlyWhereMissed
PROPERTIES
    CatchesUp
CHECK_DEADLOCK FALSE

SPECIFICATION FairSpec
CONSTANTS
    NPaths = 2
    Workers = {w1, w2}
    MaxFails = 1
    MaxLevel = 2
    Rtts = {1, 2}
INVARIANTS
    BestIsLowest
PROPERTIES
    LevelMovesByOne
    BlockedPathIsLeft

SPECIFICATION FairSpec
CONSTANTS
    Window = 1
    TargetLens = {14, 5000}
    MaxSent = 2
CHECK_DEADLOCK FALSE
INVARIANTS
    EofIsTrue
    CountersBracket
PROPERTIES
    EndToEnd
    RelayReturns

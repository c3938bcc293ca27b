SPECIFICATION Spec
CONSTANTS
    Requests = {"tunnel"}
    BufCap = 2
    MaxFrames = 2
CHECK_DEADLOCK FALSE
INVARIANT
    ReadSurvivesClose

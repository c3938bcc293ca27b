SPECIFICATION FairSpec
CONSTANTS
    Requests = {"tunnel", "root", "elsewhere"}
    BufCap = 3
    MaxFrames = 3
CHECK_DEADLOCK FALSE
INVARIANTS
    DownKept
    UpKept
PROPERTY
    DownArrives

SPECIFICATION ConfigSpec
CONSTANTS
    Files <- MCFiles
    PeerKeeps = {0, 1, 5, 12, 29, 60}
    Hellos = {4, 191, 517}
CHECK_DEADLOCK FALSE
INVARIANTS
    Runnable
    ProfileKeepsSmux
    PairAlive
    DelayOff
    SidesAgree
    HelloSplit

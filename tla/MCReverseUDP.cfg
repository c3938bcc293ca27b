SPECIFICATION FairSpec
CONSTANTS
    Keys = {k1, k2}
    Streams = {s1, s2}
    None = None
    Timeout = 0
    MaxLag = 1
CHECK_DEADLOCK FALSE
INVARIANTS
    UdpTypeOK
    StreamsOwned
    FreshWrite
PROPERTIES
    ListenerReturns
    SilentPeerLeaves

SPECIFICATION FairSpec
CONSTANTS
    Workers = {w1, w2}
    Sessions = {s1, s2}
    NoSession = NoSession
    MaxAge = 0
CHECK_DEADLOCK FALSE
INVARIANTS
    TypeOK
    OneHolder
    NoLeak
    PoolIsServed
PROPERTIES
    ShutdownReachesAll

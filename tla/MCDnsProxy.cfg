SPECIFICATION DFairSpec
CONSTANTS
    Callers = {c1, c2}
    Sessions = {s1}
    NoSession = NoSession
    IdxMod = 1
    Questions = {q1}
    Ids = {i1, i2}
    TTL = 1
    Deadline = 1
    None = None
CHECK_DEADLOCK FALSE
INVARIANTS
    DTypeOK
    ReplyMatches
    ReplyFresh
PROPERTY QueryEnds

SPECIFICATION FairSpec
CONSTANTS
    Keys = {k1}
    Sessions = {s1, s2}
    Openers = {o1, o2}
    NoSession = NoSession
    MaxStreams = 0
    ZombieAge = 0
    MaxForward = 1
INVARIANTS
    TypeOK
    GaugeMatchesMap
    NoOrphan
    LoadBound
    ZombieCarriesNoReverse
PROPERTY DeadSessionLeaves

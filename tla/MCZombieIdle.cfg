SPECIFICATION HSpec
CONSTANTS
    Keys = {k1}
    Sessions = {s1, s2}
    Openers = {o1}
    NoSession = NoSession
    MaxStreams = 1
    ZombieAge = 1
    MaxForward = 1
PROPERTY KilledWasIdle

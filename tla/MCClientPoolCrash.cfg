SPECIFICATION Spec
CONSTANTS
    Workers = {w1}
    Sessions = {s1, s2}
    NoSession = NoSession
    MaxAge = 0
CHECK_DEADLOCK FALSE
INVARIANT FailureIsSurvived

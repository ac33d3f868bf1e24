SPECIFICATION Spec
CONSTANTS
    Dispatchers = {d1, d2}
    Services = {s1, s2}
    Nothing = Nothing
    MaxSessions = 1
    IdleTtl = 1
    MaxGeneration = 2
INVARIANT
    NoneLingersInBackoff

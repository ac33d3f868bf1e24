SPECIFICATION Spec
CONSTANTS
    Dispatchers = {d1, d2}
    Services = {s1, s2, s3}
    Nothing = Nothing
    MaxSessions = 2
    IdleTtl = 2
    MaxGeneration = 2
SYMMETRY Symmetry
INVARIANTS
    ToolRunsAtMostOnce
    RetryOnceWithNewerToken
    CallCarriesAppliedCredential
PROPERTIES
    EvictSparesReplacement
    PushedOutIsLeastRecent

SPECIFICATION Spec
CONSTANTS
    Apis = {s1, s2, s3, x}
    Services = {s1, s2, s3}
    Configured = {s1, s2}
    Bundled = {s1, s3}
    Clients = {c1}
    Startup = Startup
    Nothing = Nothing
    MaxGeneration = 2
INVARIANTS
    CallsRoutable
    NeverOverstatesFreshness
    PrunedStaysPruned
    ReadyMeansToken
PROPERTIES
    KeepsCatalogPromise
    FlatIsPinned
    StartupSettles
CHECK_DEADLOCK FALSE

SPECIFICATION StartupSpec
CONSTANTS
    Lowercase = {"a", "b"}
    Digits = {"1"}
    MinId = 2
    MaxId = 4
    MaxNumber = 3
    MaxApiName = 3
    MaxProject = 4
    Apis <- MCApis
    Tokens = {t1, t2, t3, t4}
    NoToken = NoToken
    MaxPages = 4
    Services = {1, 2, 3}
    Tools = {t, long}
    TooLong = {long}
    Permits = 2
    FetchTimeout = 2
    MaxListing = 2
    ApiOf <- MCApiOf
    Settings <- MCSettings
    Statuses = {401, 403, 503}
    Junk <- MCJunk
INVARIANTS
    PermitsAccountedFor
    FailureStaysContained
    OrderLeavesNoTrace
    LimitIsExact
    NoPageTwice
    RemediationNamesTheProject
    UpstreamStatusDecides
PROPERTIES
    KeepsCatalogPromise
    PrunedByWholeListing
    StartupEnds
CHECK_DEADLOCK FALSE

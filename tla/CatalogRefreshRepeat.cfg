SPECIFICATION Spec
CONSTANTS
    Services = {1, 2, 3}
    Tools = {t, long}
    TooLong = {long}
    Permits = 2
    FetchTimeout = 2
    MaxListing = 2
INVARIANT OnlyTwoEndpointsClash
CHECK_DEADLOCK FALSE

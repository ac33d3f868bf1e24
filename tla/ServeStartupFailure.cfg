SPECIFICATION Spec
CONSTANTS
    Apis = {s1, s2, s3, x}
    Services = {s1, s2, s3}
    Configured = {s1, s2}
    Bundled = {s1, s3}
    Clients = {c1}
    Startup = Startup
    Nothing = Nothing
    MaxGeneration = 2
PROPERTY FailureIsLifted
CHECK_DEADLOCK FALSE

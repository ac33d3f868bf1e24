SPECIFICATION Spec
CONSTANTS
    Nothing = Nothing
    MaxMessages = 4
INVARIANTS
    NoMessageLost
    FallbackWorks
CHECK_DEADLOCK FALSE

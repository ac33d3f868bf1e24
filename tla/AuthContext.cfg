SPECIFICATION Spec
CONSTANTS
    Callers = {c1, c2, c3}
    NoToken = NoToken
    Margin = 2
    FetchTimeout = 2
    Cooldown = 2
    Floor = 4
    MaxLifetime = 6
    MaxGeneration = 2
CHECK_DEADLOCK TRUE
INVARIANTS
    IndInv
PROPERTIES
    CooldownRespected
    SkewCausesNoRefetchStorm
    OnlyRejectedTokenDiscarded
    EveryCallReturns
    ImplementsPromise

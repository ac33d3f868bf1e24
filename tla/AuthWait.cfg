SPECIFICATION WaitSpec
CONSTANTS
    Callers = {c1, c2, c3}
    NoToken = NoToken
    Margin = 2
    FetchTimeout = 2
    Cooldown = 2
    Floor = 4
    MaxLifetime = 6
    MaxGeneration = 2
INVARIANT WaitBounded

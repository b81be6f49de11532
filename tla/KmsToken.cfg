\* Three calls; a cached token is fresh for two ticks, and the clock runs over
\* two generations of tokens.  No symmetry, which TLC cannot combine with
\* liveness.
SPECIFICATION FairSpec
CONSTANTS
    Calls = {c1, c2, c3}
    None = None
    Timeout = 1
    Lag = 1
    Lifetime = 6
    Margin = 4
    MaxTime = 10
INVARIANTS
    TypeOK
    TokenAlive
    OneLogin
PROPERTIES
    ReplacedWhenExpired
    Answered

\* Three requests over two merchants: two updates beside a rotation of the same
\* row, or rotations and a request with a key of either.  No symmetry, which TLC
\* cannot combine with liveness.
SPECIFICATION FairSpec
CONSTANTS
    Requests = {r1, r2, r3}
    Merchants = {m1, m2}
    None = None
    MaxFaults = 1
    MaxCrashes = 1
INVARIANTS
    TypeOK
    UpdatesAtomic
    KeyServesItsMerchant
PROPERTIES
    SecretsNeverReturn
    Answered

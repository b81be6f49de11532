\* Healthy Redis and Postgres: only the interleaving of requests goes wrong.
SPECIFICATION Spec
CONSTANTS
    Requests = {r1, r2, r3}
    Wallets = {w1, w2}
    Nonces = {n1, n2, n3}
    None = None
    MaxFaults = 0
    MaxCrashes = 0
SYMMETRY Symmetry
INVARIANTS
    LinkFailsAsDocumented

\* Two requests that contend for one wallet, failures and a crash; no symmetry,
\* which TLC cannot combine with liveness.
SPECIFICATION FairSpec
CONSTANTS
    Requests = {r1, r2}
    Wallets = {w1}
    Nonces = {n1, n2}
    None = None
    MaxFaults = 1
    MaxCrashes = 1
PROPERTIES
    Answered

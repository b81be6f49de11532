\* Three Creates, Deletes and Lists of one merchant that has two destinations,
\* with a failing call: circles of waiting INSERTs occur and are broken, and
\* pages are read around them.  No symmetry, and no crash, which only stops.
SPECIFICATION FairSpec
CONSTANTS
    a = a
    b = b
    s = s
    m1 = m1
    w = w
    Requests = {r1, r2, r3}
    Merchants = {m1}
    EvmNetworks = {a, b}
    SolanaNetworks = {}
    EvmWallets = {w}
    SolanaWallets = {}
    NetworkLists <- FewLists
    Pages <- FewPages
    Earlier <- TwoEarlier
    None = None
    MaxFaults = 1
    MaxCrashes = 0
INVARIANTS
    PagesTile
PROPERTIES
    Answered

\* Three requests: a destination exists while two others update or delete it;
\* lists in both orders, with a duplicate, a wrong chain and an unknown id.
SPECIFICATION Spec
CONSTANTS
    a = a
    b = b
    s = s
    m1 = m1
    w = w
    Requests = {r1, r2, r3}
    Merchants = {m1, m2}
    EvmNetworks = {a, b}
    SolanaNetworks = {s}
    EvmWallets = {w}
    SolanaWallets = {v}
    NetworkLists <- ManyLists
    Pages <- NoPages
    Earlier <- NoneEarlier
    None = None
    MaxFaults = 1
    MaxCrashes = 1
SYMMETRY Symmetry
INVARIANTS
    TypeOK
    OneDestinationPerNetwork
    AddressFitsNetwork
    NoMixing
    DeletedStaysDeleted
PROPERTIES
    ImplementsDestinations

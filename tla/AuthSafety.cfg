\* Three requests over two wallets: a race for one wallet beside a Link that
\* needs a session; as many nonces as requests, so that each can be admitted.
SPECIFICATION Spec
CONSTANTS
    Requests = {r1, r2, r3}
    Wallets = {w1, w2}
    Nonces = {n1, n2, n3}
    None = None
    MaxFaults = 1
    MaxCrashes = 1
SYMMETRY Symmetry
INVARIANTS
    TypeOK
    NonceSingleUse
    AccountsWhole
    TokensNameOwner
    RepliesAreTrue
\* A refinement of a specification without fairness: safety only, so that
\* symmetry is sound.
PROPERTIES
    ImplementsAccounts

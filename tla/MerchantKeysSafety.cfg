\* Four calls for two merchants: two CreateMerchantSeed that contend for a name
\* beside a use of another merchant's key, or a Create, its retry and two uses.
SPECIFICATION Spec
CONSTANTS
    Calls = {c1, c2, c3, c4}
    Merchants = {m1, m2}
    ethereum = ethereum
    base = base
    solana = solana
    EvmNetworks = {ethereum, base}
    SolanaNetworks = {solana}
    HardenedBit = 1024
    Uses <- MCUses
    None = None
    MaxFaults = 2
    MaxCrashes = 2
SYMMETRY Symmetry
INVARIANTS
    TypeOK
    OneSeedPerMerchant
    SeedRecoverable
    OneKeyPerAddress
    SliceCleared

----------------------------- MODULE Derivation -----------------------------
(***************************************************************************)
(* Which key a deposit address stands for (internal/signer/derivation.go): *)
(* the registry of networks, and the path from a merchant's seed.  The     *)
(* arithmetic on curves is left out: distinct seeds, schemes or paths give *)
(* distinct keys, and equal ones the same key.  uint32 segments are scaled *)
(* down: their highest bit, 2^31, is HardenedBit here.                     *)
(***************************************************************************)
EXTENDS Integers

CONSTANTS
    EvmNetworks, SolanaNetworks,    \* the registry, by chain type
    HardenedBit

\* Larger than every constant segment of a path.
ASSUME DerivationAssumption ==
    /\ EvmNetworks \cap SolanaNetworks = {}
    /\ HardenedBit \in Nat /\ HardenedBit > 501

-----------------------------------------------------------------------------
LookupNetwork(network) == network \in EvmNetworks \cup SolanaNetworks

ChainType(network) == IF network \in EvmNetworks THEN "evm" ELSE "solana"

\* SLIP-44: every EVM network shares one coin type, testnets included.
CoinType(network) == IF network \in EvmNetworks THEN 60 ELSE 501

\* hdkeychain.HardenedKeyStart + segment, of segments without the bit.
Hardened(segment) == HardenedBit + segment

\* Mutant of WithBit: 0x80000000 & segment.
OnlyBit(segment) == HardenedBit * (segment \div HardenedBit)

\* 0x80000000 | segment, which forgets whether the bit was set.
WithBit(segment) == HardenedBit + (segment % HardenedBit)

EvmPath(coin, index) == <<Hardened(44), Hardened(coin), Hardened(0), 0, index>>

SolanaPath(coin, index) ==
    <<WithBit(44), WithBit(coin), WithBit(0), WithBit(0), WithBit(index)>>

\* deriveEVMKey (BIP-32) and deriveSolanaKey (SLIP-0010).
DeriveKey(seed, network, index) ==
    IF ChainType(network) = "evm"
    THEN [scheme |-> "BIP-32", seed |-> seed,
          path |-> EvmPath(CoinType(network), index)]
    ELSE [scheme |-> "SLIP-0010", seed |-> seed,
          path |-> SolanaPath(CoinType(network), index)]
=============================================================================

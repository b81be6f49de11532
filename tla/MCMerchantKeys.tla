---------------------------- MODULE MCMerchantKeys ----------------------------
(* MerchantKeys for TLC: calls and merchants are interchangeable.            *)
EXTENDS MerchantKeys, TLC

CONSTANTS ethereum, base, solana

Use(op, network, index) == [op |-> op, network |-> network, index |-> index]

\* Two EVM networks and a Solana one; the index 0, another, and one with the
\* highest bit; a network of the wrong chain, and one that is unknown.
MCUses ==
    {Use("address", ethereum, 0), Use("address", base, HardenedBit),
     Use("signEVM", base, 0), Use("signEVM", solana, 0),
     Use("address", solana, 0), Use("signSolana", solana, 1),
     Use("address", solana, HardenedBit), Use("address", None, 0)}

Symmetry == Permutations(Calls) \cup Permutations(Merchants)
=============================================================================

------------------------------- MODULE MCAuth -------------------------------
(* Instance of Auth for TLC. *)
EXTENDS Auth, TLC

Symmetry ==
    Permutations(Requests) \cup Permutations(Wallets) \cup Permutations(Nonces)
=============================================================================

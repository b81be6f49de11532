---------------------------- MODULE MCSettlement ----------------------------
(* Instance of Settlement for TLC: two EVM networks, one Solana network. *)
EXTENDS Settlement, TLC

CONSTANTS a, b, s, m1, w

\* One network, both orders of two, one twice, two chains, one that is unknown.
ManyLists == {<<a>>, <<a, b>>, <<b, a>>, <<a, a>>, <<a, s>>, <<s>>, <<a, None>>}

\* Both orders of the same two networks, and one of them alone.
FewLists == {<<a>>, <<a, b>>, <<b, a>>}

\* Both pages of one row each, all in one page, and one that is refused.
FewPages == {<<0, 1>>, <<2, 1>>, <<1, 0>>, <<1, 101>>}

NoPages == {}

\* Two destinations, one older than the other.
TwoEarlier ==
    <<[op |-> "create", merchant |-> m1, wallet |-> w, networks |-> <<a>>,
       form |-> "valid"],
      [op |-> "create", merchant |-> m1, wallet |-> w, networks |-> <<b>>,
       form |-> "valid"]>>

NoneEarlier == <<>>

Symmetry == Permutations(Requests) \cup Permutations(Merchants)
=============================================================================

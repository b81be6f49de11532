-------------------------------- MODULE MCFee --------------------------------
(* Fee behind Pricing for TLC: ranges a configuration file cannot write.     *)
EXTENDS Pricing

MCAmounts == 0..60
MCMaxCents == 1..9
MCPrices == 0..24
MCScales == {1, 10, 100, 1000}
=============================================================================

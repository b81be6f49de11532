-------------------------------- MODULE Fee --------------------------------
(***************************************************************************)
(* The platform's fee on a deposit (internal/pricing/fee.go).  Decimals    *)
(* are integers over a scale, which is a power of ten: amounts are in the  *)
(* token's smallest unit, prices over PriceScale, and the quotients of     *)
(* decimal.Div, which rounds half up, over DivisionScale.  Module Pricing  *)
(* says where the price comes from.                                        *)
(***************************************************************************)
EXTENDS Integers

CONSTANTS
    Amounts,            \* deposits
    BPS,                \* FeeConfig.BPS, in basis points
    MaxCents,           \* FeeConfig.MaxCents, in cents
    Prices,             \* exchange rates, times PriceScale
    TokenScales,        \* 10^decimals: how many smallest units make a token
    PriceScale,
    DivisionScale       \* 10^16 in the library

ASSUME FeeAssumption ==
    /\ Amounts \subseteq Nat /\ BPS \subseteq Nat /\ MaxCents \subseteq Nat
    /\ Prices \subseteq Nat /\ TokenScales \subseteq Nat \ {0}
    /\ PriceScale \in Nat \ {0} /\ DivisionScale \in Nat \ {0}

VARIABLES
    deposit,    \* the arguments of CalculateFee
    outcome     \* FeeResult, once its status is "ok"

vars == <<deposit, outcome>>

-----------------------------------------------------------------------------
Deposits == [amount : Amounts, bps : BPS, maxCents : MaxCents,
             price : Prices, scale : TokenScales]

\* Mutant of DivRound: the quotient is rounded up.
DivUp(n, d) == (n * DivisionScale + d - 1) \div d

\* decimal.Div, its result times DivisionScale: the quotient rounded half up.
DivRound(n, d) == (2 * n * DivisionScale + d) \div (2 * d)

\* Mutant of FeePct: a wrong bpsBase.
FeePermille(amount, bps) == (amount * bps) \div 1000

FeePct(amount, bps) == (amount * bps) \div 10000

\* MaxCents / 100 is exact; the division by the price is not.
MaxInTokens(maxCents, price, scale) ==
    (DivRound(maxCents * PriceScale, 100 * price) * scale) \div DivisionScale

Smaller(x, y) == IF x < y THEN x ELSE y

\* The fee on an amount under the other arguments of d.
FeeOf(d, amount) ==
    IF d.bps = 0 \/ amount = 0 THEN 0
    ELSE Smaller(FeePct(amount, d.bps), MaxInTokens(d.maxCents, d.price, d.scale))

Pending == [status |-> "pending", fee |-> 0, net |-> 0]
Panic == [status |-> "panic", fee |-> 0, net |-> 0]

\* Mutant of CalculateFee: the net amount takes no notice of the cap.
CalculateFeeUncapped ==
    /\ outcome = Pending
    /\ deposit.price # 0
    /\ outcome' = [status |-> "ok", fee |-> FeeOf(deposit, deposit.amount),
                   net |-> deposit.amount - FeePct(deposit.amount, deposit.bps)]
    /\ UNCHANGED deposit

\* decimal.Div panics when the price is zero, unless no fee is due at all.
CalculateFee ==
    /\ outcome = Pending
    /\ outcome' = IF deposit.price = 0 /\ deposit.bps # 0 /\ deposit.amount # 0
                  THEN Panic
                  ELSE [status |-> "ok", fee |-> FeeOf(deposit, deposit.amount),
                        net |-> deposit.amount - FeeOf(deposit, deposit.amount)]
    /\ UNCHANGED deposit

-----------------------------------------------------------------------------
(* Properties.                                                             *)

Calculated == outcome.status = "ok"

\* fee_test.go FuzzCalculateFee, for rates of at most 100 percent: no unit of
\* the deposit is created or lost, and neither party receives less than nothing.
NothingLost ==
    Calculated /\ deposit.bps <= 10000 =>
        /\ outcome.fee + outcome.net = deposit.amount
        /\ outcome.fee >= 0 /\ outcome.net >= 0

\* The fee is worth at most MaxCents, for tokens with few or many decimals, cheap
\* or dear ones, up to half a unit of the last digit that the division keeps: a
\* rounding that the formula of fee.go:26 takes no notice of.
CapHonoured ==
    Calculated =>
        2 * DivisionScale * outcome.fee * 100 * deposit.price
            <= (2 * DivisionScale * deposit.maxCents * PriceScale
                  + 100 * deposit.price) * deposit.scale

\* Who deposits more never makes the merchant receive less, across the points
\* where the percentage is rounded down and where the cap takes over.
NetMonotone ==
    Calculated /\ deposit.bps <= 10000 =>
        \A amount \in Amounts : amount <= deposit.amount =>
            amount - FeeOf(deposit, amount) <= outcome.net
=============================================================================

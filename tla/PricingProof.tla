----------------------------- MODULE PricingProof -----------------------------
(***************************************************************************)
(* Proofs about the fee and the price it is charged at, for all amounts,   *)
(* rates, caps, prices and tokens, and for every precision of the          *)
(* division.                                                               *)
(***************************************************************************)
EXTENDS Pricing, TLAPS

-----------------------------------------------------------------------------
(* Facts about the calculation.                                            *)

\* Division by a positive number rounds down.
LEMMA DivBounds ==
    ASSUME NEW x \in Nat, NEW y \in Nat \ {0}
    PROVE  /\ x \div y \in Nat
           /\ (x \div y) * y <= x
  OBVIOUS

LEMMA TimesGrows ==
    ASSUME NEW x \in Nat, NEW y \in Nat, NEW z \in Nat, x <= y
    PROVE  x * z \in Nat /\ x * z <= y * z
  OBVIOUS

\* The percentage is no more than the amount, and rises by no more than the amount
\* does, wherever it is rounded down.
LEMMA FeePctGrows ==
    ASSUME NEW more \in Nat, NEW less \in Nat, less <= more,
           NEW bps \in Nat, bps <= 10000
    PROVE  /\ FeePct(more, bps) \in Nat /\ FeePct(less, bps) \in Nat
           /\ FeePct(less, bps) <= FeePct(more, bps)
           /\ FeePct(more, bps) - FeePct(less, bps) <= more - less
<1> DEFINE x == more * bps
           y == less * bps
<1>1. x \in Nat /\ y \in Nat /\ y <= x
  BY TimesGrows
<1>2. x - y <= (more - less) * 10000
  <2>1. x - y = (more - less) * bps
    OBVIOUS
  <2>2. (more - less) * bps <= (more - less) * 10000
    OBVIOUS
  <2>3. QED BY <1>1, <2>1, <2>2
<1> HIDE DEF x, y
<1>3. /\ x \div 10000 \in Nat /\ y \div 10000 \in Nat /\ y \div 10000 <= x \div 10000
      /\ x \div 10000 - y \div 10000 <= more - less
  BY <1>1, <1>2
<1>4. QED BY <1>3 DEF FeePct, x, y

LEMMA FeePctBounds ==
    ASSUME NEW amount \in Nat, NEW bps \in Nat
    PROVE  /\ FeePct(amount, bps) \in Nat
           /\ bps <= 10000 => FeePct(amount, bps) <= amount
           /\ bps = 0 \/ amount = 0 => FeePct(amount, bps) = 0
<1>1. amount * bps \in Nat
  OBVIOUS
<1>2. bps <= 10000 => amount * bps <= amount * 10000
  OBVIOUS
<1>3. bps = 0 \/ amount = 0 => amount * bps = 0
  OBVIOUS
<1>4. QED BY <1>1, <1>2, <1>3 DEF FeePct

\* The cap in tokens is worth at most MaxCents, and half a unit of the last digit
\* of the quotient.
LEMMA CapBound ==
    ASSUME NEW maxCents \in Nat, NEW price \in Nat \ {0}, NEW scale \in Nat \ {0}
    PROVE  /\ MaxInTokens(maxCents, price, scale) \in Nat
           /\ 2 * DivisionScale * MaxInTokens(maxCents, price, scale) * 100 * price
                <= (2 * DivisionScale * maxCents * PriceScale + 100 * price) * scale
<1> DEFINE n == maxCents * PriceScale
           d == 100 * price
           q == DivRound(n, d)
           cap == MaxInTokens(maxCents, price, scale)
<1>1. n \in Nat /\ d \in Nat \ {0} /\ DivisionScale \in Nat \ {0} /\ PriceScale \in Nat
  BY FeeAssumption
<1>2. q = (2 * n * DivisionScale + d) \div (2 * d)
  BY DEF DivRound
<1>3. cap = (q * scale) \div DivisionScale
  BY DEF MaxInTokens
<1> HIDE DEF q, cap
<1>4. q \in Nat /\ q * (2 * d) <= 2 * n * DivisionScale + d
  <2> HIDE DEF n, d
  <2>1. 2 * n * DivisionScale + d \in Nat /\ 2 * d \in Nat \ {0}
    BY <1>1
  <2>2. QED BY <1>2, <2>1, DivBounds
<1>5. q * scale \in Nat
  BY <1>4
<1>6. cap \in Nat /\ cap * DivisionScale <= q * scale
  BY <1>1, <1>3, <1>5, DivBounds
<1>7. (cap * DivisionScale) * (2 * d) <= (q * scale) * (2 * d)
  <2> HIDE DEF d
  <2>1. cap * DivisionScale \in Nat /\ 2 * d \in Nat
    BY <1>1, <1>6
  <2>2. QED BY <1>5, <1>6, <2>1, TimesGrows
<1>8. (q * (2 * d)) * scale <= (2 * n * DivisionScale + d) * scale
  <2> HIDE DEF n, d
  <2>1. q * (2 * d) \in Nat /\ 2 * n * DivisionScale + d \in Nat
    BY <1>1, <1>4
  <2>2. QED BY <1>4, <2>1, TimesGrows
<1>9. (q * scale) * (2 * d) = (q * (2 * d)) * scale
  <2> HIDE DEF d
  <2>1. QED BY <1>1, <1>4
<1>10. (cap * DivisionScale) * (2 * d) = 2 * DivisionScale * cap * 100 * price
  BY <1>1, <1>6
<1>11. 2 * n * DivisionScale + d = 2 * DivisionScale * maxCents * PriceScale + 100 * price
  BY <1>1
<1>12. 2 * DivisionScale * cap * 100 * price <= (2 * n * DivisionScale + d) * scale
  <2>1. /\ (q * (2 * d)) * scale \in Int
        /\ (2 * n * DivisionScale + d) * scale \in Int
        /\ (cap * DivisionScale) * (2 * d) \in Int
    BY <1>1, <1>4, <1>6
  <2>2. QED BY <1>7, <1>8, <1>9, <1>10, <2>1
<1>13. QED BY <1>6, <1>11, <1>12 DEF cap

LEMMA CapType ==
    ASSUME NEW maxCents \in Nat, NEW price \in Nat \ {0}, NEW scale \in Nat \ {0}
    PROVE  MaxInTokens(maxCents, price, scale) \in Nat
  BY CapBound

-----------------------------------------------------------------------------
(* The fee of a deposit.                                                   *)

\* A deposit as FetchPrice leaves it: before there is a price, the price is zero.
Charged == [amount : Amounts, bps : BPS, maxCents : MaxCents,
            price : Prices \cup {0}, scale : TokenScales]

LEMMA ChargedType ==
    ASSUME NEW d \in Charged
    PROVE  /\ d.amount \in Nat /\ d.bps \in Nat /\ d.maxCents \in Nat
           /\ d.price \in Nat /\ d.scale \in Nat \ {0}
<1>1. /\ d.amount \in Amounts /\ d.bps \in BPS /\ d.maxCents \in MaxCents
      /\ d.price \in Prices \cup {0} /\ d.scale \in TokenScales
  BY DEF Charged
<1>2. /\ \A x \in Amounts : x \in Nat
      /\ \A x \in BPS : x \in Nat
      /\ \A x \in MaxCents : x \in Nat
      /\ \A x \in Prices \cup {0} : x \in Nat
      /\ \A x \in TokenScales : x \in Nat \ {0}
  BY FeeAssumption
<1>3. QED BY <1>1, <1>2, Zenon

\* Whether CalculateFee divides by the price.
Free(d, amount) == d.bps = 0 \/ amount = 0

LEMMA CapOfType ==
    ASSUME NEW d \in Charged, d.price # 0
    PROVE  MaxInTokens(d.maxCents, d.price, d.scale) \in Nat
  BY CapType, ChargedType

LEMMA PercentGrows ==
    ASSUME NEW d \in Charged, d.bps <= 10000,
           NEW more \in Nat, NEW less \in Nat, less <= more
    PROVE  /\ FeePct(more, d.bps) \in Nat /\ FeePct(less, d.bps) \in Nat
           /\ FeePct(less, d.bps) <= FeePct(more, d.bps)
           /\ FeePct(more, d.bps) - FeePct(less, d.bps) <= more - less
<1>1. PICK bps \in Nat : bps = d.bps
  BY ChargedType
<1>2. bps <= 10000
  BY <1>1
<1>3. /\ FeePct(more, bps) \in Nat /\ FeePct(less, bps) \in Nat
      /\ FeePct(less, bps) <= FeePct(more, bps)
      /\ FeePct(more, bps) - FeePct(less, bps) <= more - less
  BY <1>2, FeePctGrows
<1>4. QED BY <1>1, <1>3

LEMMA FeeType ==
    ASSUME NEW d \in Charged, NEW amount \in Nat, d.price # 0 \/ Free(d, amount)
    PROVE  /\ FeeOf(d, amount) \in Nat
           /\ d.bps <= 10000 => FeeOf(d, amount) <= amount
<1>1. CASE Free(d, amount)
  BY <1>1, ChargedType DEF Free, FeeOf
<1>2. CASE ~ Free(d, amount)
  <2>1. FeeOf(d, amount) =
          Smaller(FeePct(amount, d.bps), MaxInTokens(d.maxCents, d.price, d.scale))
    BY <1>2 DEF Free, FeeOf
  <2>2. MaxInTokens(d.maxCents, d.price, d.scale) \in Nat
    BY <1>2, CapType, ChargedType
  <2>3. /\ FeePct(amount, d.bps) \in Nat
        /\ d.bps <= 10000 => FeePct(amount, d.bps) <= amount
    <3>1. d.bps \in Nat
      BY ChargedType
    <3>2. FeePct(amount, d.bps) \in Nat
      BY <3>1, FeePctBounds
    <3>3. d.bps <= 10000 => FeePct(amount, d.bps) <= amount
      BY <3>1, FeePctBounds
    <3>4. QED BY <3>2, <3>3
  <2>4. QED BY <2>1, <2>2, <2>3 DEF Smaller
<1>3. QED BY <1>1, <1>2

LEMMA FeeCapped ==
    ASSUME NEW d \in Charged, NEW amount \in Nat, d.price # 0 \/ Free(d, amount)
    PROVE  2 * DivisionScale * FeeOf(d, amount) * 100 * d.price
             <= (2 * DivisionScale * d.maxCents * PriceScale + 100 * d.price) * d.scale
<1> DEFINE fee == FeeOf(d, amount)
           cap == MaxInTokens(d.maxCents, d.price, d.scale)
           bound == (2 * DivisionScale * d.maxCents * PriceScale + 100 * d.price) * d.scale
           k == 2 * DivisionScale * 100 * d.price
<1>1. /\ d.maxCents \in Nat /\ d.price \in Nat /\ d.scale \in Nat
      /\ DivisionScale \in Nat /\ PriceScale \in Nat
  BY ChargedType, FeeAssumption
<1>2. CASE fee = 0
  <2>1. bound \in Nat
    BY <1>1
  <2>2. 2 * DivisionScale * fee * 100 * d.price = 0
    BY <1>1, <1>2
  <2>3. QED BY <2>1, <2>2
<1>3. CASE fee # 0
  <2>1. ~ Free(d, amount)
    BY <1>3 DEF Free, FeeOf
  <2>2. fee = Smaller(FeePct(amount, d.bps), cap)
    BY <2>1 DEF Free, FeeOf
  <2>3. cap \in Nat /\ 2 * DivisionScale * cap * 100 * d.price <= bound
    BY <2>1, CapBound, ChargedType
  <2>4. fee \in Nat /\ fee <= cap
    <3>1. FeePct(amount, d.bps) \in Nat
      <4>1. d.bps \in Nat
        BY ChargedType
      <4>2. QED BY <4>1, FeePctBounds
    <3> HIDE DEF fee, cap
    <3>2. QED BY <2>2, <2>3, <3>1 DEF Smaller
  <2> HIDE DEF fee, cap
  <2>5. k \in Nat /\ fee * k <= cap * k
    BY <1>1, <2>3, <2>4, TimesGrows
  <2>6. /\ fee * k = 2 * DivisionScale * fee * 100 * d.price
        /\ cap * k = 2 * DivisionScale * cap * 100 * d.price
    BY <1>1, <2>3, <2>4
  <2>7. bound \in Nat
    BY <1>1
  <2> HIDE DEF bound, k
  <2>8. fee * k \in Nat /\ cap * k \in Nat
    BY <2>3, <2>4, <2>5
  <2>9. QED BY <2>3, <2>5, <2>6, <2>7, <2>8 DEF fee, bound
<1>4. QED BY <1>2, <1>3

\* Who deposits more pays more, but no more than the difference.
LEMMA FeeGrows ==
    ASSUME NEW d \in Charged, NEW more \in Nat, NEW less \in Nat, less <= more,
           d.bps <= 10000, d.price # 0 \/ Free(d, more)
    PROVE  less - FeeOf(d, less) <= more - FeeOf(d, more)
<1>1. CASE Free(d, more)
  <2>1. Free(d, less) /\ FeeOf(d, less) = 0 /\ FeeOf(d, more) = 0
    BY <1>1 DEF Free, FeeOf
  <2>2. QED BY <2>1
<1>2. CASE ~ Free(d, more) /\ Free(d, less)
  <2>1. FeeOf(d, more) \in Nat /\ FeeOf(d, more) <= more /\ FeeOf(d, less) = 0 /\ less = 0
    BY <1>2, FeeType DEF Free, FeeOf
  <2>2. QED BY <2>1
<1>3. CASE ~ Free(d, more) /\ ~ Free(d, less)
  <2> DEFINE cap == MaxInTokens(d.maxCents, d.price, d.scale)
             percent(amount) == FeePct(amount, d.bps)
  <2>1. /\ FeeOf(d, more) = Smaller(percent(more), cap)
        /\ FeeOf(d, less) = Smaller(percent(less), cap)
    BY <1>3 DEF Free, FeeOf
  <2>2. cap \in Nat
    BY <1>3, CapOfType
  <2>3. /\ percent(more) \in Nat /\ percent(less) \in Nat
        /\ percent(less) <= percent(more)
        /\ percent(more) - percent(less) <= more - less
    BY PercentGrows
  <2> HIDE DEF cap, percent
  <2>4. QED BY <2>1, <2>2, <2>3 DEF Smaller
<1>4. QED BY <1>1, <1>2, <1>3

-----------------------------------------------------------------------------
(* The inductive invariant.                                                *)

\* What CalculateFee makes of a deposit.
Result(d) ==
    IF d.price = 0 /\ ~ Free(d, d.amount) THEN Panic
    ELSE [status |-> "ok", fee |-> FeeOf(d, d.amount),
          net |-> d.amount - FeeOf(d, d.amount)]

\* A deposit is charged once, at a price that a source quoted.
IInv ==
    /\ deposit \in Charged
    /\ at = "priced" => deposit.price \in quoted
    /\ outcome # Pending => at = "priced" /\ outcome = Result(deposit)

LEMMA InitIInv == PricingInit => IInv
<1> SUFFICES ASSUME PricingInit PROVE IInv
  OBVIOUS
<1>1. PICK d \in Deposits : deposit = [d EXCEPT !.price = 0]
  BY DEF PricingInit
<1>2. deposit \in Charged
  BY <1>1 DEF Deposits, Charged
<1>3. QED BY <1>2 DEF PricingInit, IInv

LEMMA ReturnKeeps ==
    ASSUME IInv, at # "priced", NEW p \in Prices, NEW u, Quote(p), Return(p, u)
    PROVE  IInv'
<1>1. deposit' \in Charged /\ deposit'.price = p
  BY DEF IInv, Charged, Return
<1>2. outcome = Pending
  BY DEF IInv
<1>3. QED BY <1>1, <1>2 DEF IInv, Quote, Return

LEMMA NextIInv == IInv /\ [PricingNext]_pricingVars => IInv'
<1> SUFFICES ASSUME IInv, [PricingNext]_pricingVars PROVE IInv'
  OBVIOUS
<1>1. CASE UNCHANGED pricingVars
  BY <1>1 DEF IInv, pricingVars, vars, oracle
<1>2. CASE FetchFromDefiLlama
  <2>1. CASE \E p \in Prices : Quote(p) /\ Return(p, Dollar)
    BY <1>2, <2>1, ReturnKeeps DEF FetchFromDefiLlama
  <2>2. CASE NoQuote("coingecko")
    BY <1>2, <2>2 DEF FetchFromDefiLlama, NoQuote, IInv, vars
  <2>3. QED BY <1>2, <2>1, <2>2 DEF FetchFromDefiLlama
<1>3. CASE FetchFromCoinGecko
  <2>1. CASE \E p \in Prices : Quote(p) /\ Return(p, currency)
    BY <1>3, <2>1, ReturnKeeps DEF FetchFromCoinGecko
  <2>2. CASE NoQuote("failed")
    BY <1>3, <2>2 DEF FetchFromCoinGecko, NoQuote, IInv, vars
  <2>3. QED BY <1>3, <2>1, <2>2 DEF FetchFromCoinGecko
<1>4. CASE ChargeDeposit
  <2>1. at = "priced" /\ UNCHANGED <<deposit, oracle>> /\ outcome' = Result(deposit)
    BY <1>4 DEF ChargeDeposit, CalculateFee, Result, Free
  <2>2. QED BY <2>1 DEF IInv, oracle, Result, Free
<1>5. QED BY <1>1, <1>2, <1>3, <1>4 DEF PricingNext, Over

LEMMA Invariance == PricingSpec => []IInv
  BY InitIInv, NextIInv, PTL DEF PricingSpec

\* A fee that has been calculated is the one of the deposit; no division by a price
\* of zero was due.
LEMMA CalculatedFee ==
    ASSUME IInv, Calculated
    PROVE  /\ deposit \in Charged /\ deposit.amount \in Nat
           /\ deposit.price # 0 \/ Free(deposit, deposit.amount)
           /\ outcome.fee = FeeOf(deposit, deposit.amount)
           /\ outcome.net = deposit.amount - FeeOf(deposit, deposit.amount)
<1>1. outcome = Result(deposit) /\ outcome # Panic
  BY DEF IInv, Calculated, Pending, Panic
<1>2. QED BY <1>1, ChargedType DEF IInv, Result

-----------------------------------------------------------------------------
(* The properties of Fee and Pricing.                                      *)

\* At rates of at most 100 percent no unit of a deposit is created or lost.
THEOREM NothingLostHolds == PricingSpec => []NothingLost
<1>1. ASSUME IInv PROVE NothingLost
  <2> SUFFICES ASSUME Calculated, deposit.bps <= 10000
               PROVE  /\ outcome.fee + outcome.net = deposit.amount
                      /\ outcome.fee >= 0 /\ outcome.net >= 0
    BY DEF NothingLost
  <2> DEFINE fee == FeeOf(deposit, deposit.amount)
  <2>1. fee \in Nat /\ fee <= deposit.amount
    BY <1>1, CalculatedFee, FeeType
  <2> HIDE DEF fee
  <2>2. outcome.fee = fee /\ outcome.net = deposit.amount - fee /\ deposit.amount \in Nat
    BY <1>1, CalculatedFee DEF fee
  <2>3. QED BY <2>1, <2>2
<1>2. QED BY Invariance, <1>1, PTL

\* A fee is worth at most MaxCents, up to the rounding of the division.
THEOREM CapHonouredHolds == PricingSpec => []CapHonoured
<1>1. ASSUME IInv PROVE CapHonoured
  BY <1>1, CalculatedFee, FeeCapped DEF CapHonoured
<1>2. QED BY Invariance, <1>1, PTL

\* Who deposits more never makes the merchant receive less.
THEOREM NetMonotoneHolds == PricingSpec => []NetMonotone
<1>1. ASSUME IInv PROVE NetMonotone
  <2> SUFFICES ASSUME Calculated, deposit.bps <= 10000,
                      NEW amount \in Amounts, amount <= deposit.amount
               PROVE  amount - FeeOf(deposit, amount) <= outcome.net
    BY DEF NetMonotone
  <2>1. amount \in Nat
    BY FeeAssumption
  <2>2. QED BY <1>1, <2>1, CalculatedFee, FeeGrows
<1>2. QED BY Invariance, <1>1, PTL

\* A failing source never turns into a price of zero.
THEOREM PanicOnlyOnZeroQuoteHolds == PricingSpec => []PanicOnlyOnZeroQuote
<1>1. ASSUME IInv PROVE PanicOnlyOnZeroQuote
  <2>1. outcome = Panic => outcome # Pending /\ outcome = Result(deposit)
    BY <1>1 DEF IInv, Pending, Panic
  <2>2. outcome = Panic => deposit.price = 0
    BY <2>1 DEF Result, Panic
  <2>3. QED BY <1>1, <2>1, <2>2 DEF IInv, PanicOnlyOnZeroQuote
<1>2. QED BY Invariance, <1>1, PTL
=============================================================================

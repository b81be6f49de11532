------------------------------- MODULE Pricing -------------------------------
(***************************************************************************)
(* The price oracle (internal/pricing/price.go) in front of the fee: the   *)
(* exchange rate of a deposit is what FetchPrice returns, from DefiLlama   *)
(* or else from CoinGecko.  Its caller is still to be written; here it     *)
(* passes the price on, and charges nothing when there is none.            *)
(***************************************************************************)
EXTENDS Fee

CONSTANTS
    Currencies,     \* fiat currencies a caller may ask for, in lower case
    Dollar,         \* the one DefiLlama quotes in
    None

ASSUME PricingAssumption == Dollar \in Currencies /\ None \notin Currencies

VARIABLES
    at,             \* FetchPrice: "defillama", "coingecko", "priced", "failed"
    currency,       \* the currency the caller asked for
    unit,           \* the currency the returned price is in, or None
    quoted          \* history: the prices the sources quoted

oracle == <<at, currency, unit, quoted>>
pricingVars == <<vars, oracle>>

-----------------------------------------------------------------------------
\* The zero value of a decimal stands for "no price yet".
PricingInit ==
    /\ deposit \in {[d EXCEPT !.price = 0] : d \in Deposits}
    /\ outcome = Pending
    /\ at = "defillama"
    /\ currency \in Currencies
    /\ unit = None
    /\ quoted = {}

\* FetchPrice returns the price p, which is in the currency u.
Return(p, u) ==
    /\ deposit' = [deposit EXCEPT !.price = p]
    /\ unit' = u
    /\ at' = "priced"
    /\ UNCHANGED <<outcome, currency>>

\* A source answers with a price.  An entry whose price is absent or null is
\* decoded to zero, and is a quote of zero here.
Quote(p) == quoted' = quoted \cup {p}

\* A timeout, an error status, an answer that does not decode or that has no entry
\* for the asset (or, at CoinGecko, for the currency).
NoQuote(next) ==
    /\ at' = next
    /\ UNCHANGED <<vars, currency, unit, quoted>>

\* Mutant of FetchFromDefiLlama: the entry that is missing is not noticed, and its
\* zero value is returned.
DefiLlamaUnchecked ==
    /\ at = "defillama"
    /\ \/ \E p \in Prices : Quote(p) /\ Return(p, Dollar)
       \/ UNCHANGED quoted /\ Return(0, Dollar)
       \/ NoQuote("coingecko")

\* DefiLlama is asked for the asset alone.
FetchFromDefiLlama ==
    /\ at = "defillama"
    /\ \/ \E p \in Prices : Quote(p) /\ Return(p, Dollar)
       \/ NoQuote("coingecko")

\* CoinGecko is asked for the asset in the currency.
FetchFromCoinGecko ==
    /\ at = "coingecko"
    /\ \/ \E p \in Prices : Quote(p) /\ Return(p, currency)
       \/ NoQuote("failed")

\* The caller has a price, and charges the deposit.
ChargeDeposit ==
    /\ at = "priced"
    /\ CalculateFee
    /\ UNCHANGED oracle

\* The fee has been calculated, or there is no price.
Over == (outcome # Pending \/ at = "failed") /\ UNCHANGED pricingVars

PricingNext ==
    FetchFromDefiLlama \/ FetchFromCoinGecko \/ ChargeDeposit \/ Over

PricingSpec == PricingInit /\ [][PricingNext]_pricingVars

-----------------------------------------------------------------------------
(* Properties.                                                             *)

\* CalculateFee panics on a price of zero only if a source quoted zero: neither an
\* outage of one source or both, nor an asset or a currency one of them does not
\* know, turns into a price.
PanicOnlyOnZeroQuote == outcome = Panic => 0 \in quoted

\* price.go:13 has the Oracle fetch "the current fiat price for a given asset", in
\* the fiatCurrency it is asked for: the price is in that currency.
PriceInCurrency == at = "priced" => unit = currency
=============================================================================

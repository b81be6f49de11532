\* One deposit, one price: a caller that asks for euros.
SPECIFICATION PricingSpec
CONSTANTS
    Amounts = {60}
    BPS = {100}
    MaxCents = {9}
    Prices = {24}
    TokenScales = {100}
    PriceScale = 10
    DivisionScale = 100
    Currencies = {usd, eur}
    Dollar = usd
    None = None
INVARIANTS
    PriceInCurrency

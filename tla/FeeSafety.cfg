\* Percentages from none to all; tokens with fewer and with more decimals than
\* a division keeps; caps that bind and caps that do not; a price of zero, and
\* every outage of the two sources of prices.
SPECIFICATION PricingSpec
CONSTANTS
    Amounts <- MCAmounts
    BPS = {0, 50, 100, 2500, 3333, 10000}
    MaxCents <- MCMaxCents
    Prices <- MCPrices
    TokenScales <- MCScales
    PriceScale = 10
    DivisionScale = 100
    Currencies = {usd, eur}
    Dollar = usd
    None = None
INVARIANTS
    NothingLost
    CapHonoured
    NetMonotone
    PanicOnlyOnZeroQuote

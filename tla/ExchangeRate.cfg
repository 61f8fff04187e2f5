SPECIFICATION RateSpec
CONSTANTS
    u1 = u1
    u2 = u2
    eur_acc = eur_acc
    sol_acc = sol_acc
    eur_feed = eur_feed
    sol_feed = sol_feed
    NoAccount = NoAccount
    Users = {u1, u2}
    PriceAccounts = {eur_acc, sol_acc}
    FeedIds = {eur_feed, sol_feed}
    Bumps = {254, 255}
    CanonicalBump <- MCCanonicalBump
    FeedOf <- MCFeedOf
    Prices <- MCPrices
    Exponents <- MCExponents
    MAX_AGE = 1
    RATE_SCALE = 5
    U64_MAX = 40
    F64_ERR = 1
    EUR_TO_USD_FEED = eur_feed
    SOL_TO_USD_FEED = sol_feed
    FINEST <- MCFinest
    NoQuote = NoQuote
INVARIANTS
    RateTypeOK
    QuoteMatchesRate
PROPERTIES
    WrongBumpIsForever
    RateChangesAreFreshQuotes

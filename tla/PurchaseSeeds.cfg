SPECIFICATION PurchaseSpec
CONSTANTS
    u1 = u1
    eur_acc = eur_acc
    sol_acc = sol_acc
    eur_feed = eur_feed
    sol_feed = sol_feed
    eur_address = eur_address
    sol_address = sol_address
    NoAccount = NoAccount
    Users = {u1}
    PriceAccounts = {eur_acc, sol_acc}
    FeedIds = {eur_feed, sol_feed}
    Bumps = {254, 255}
    CanonicalBump <- MCCanonicalBump
    FeedOf <- MCFeedOf
    Prices <- MCPrices
    Exponents <- MCExponents
    MAX_AGE = 0
    RATE_SCALE = 10
    U64_MAX = 1000000
    F64_ERR = 1
    RATE_PROGRAM = rate_program
    SEEDS_PROGRAM = coin_program
    EUR_USD_FEED = eur_feed
    SOL_USD_FEED = sol_feed
    SHARE_SCALE = 100
    FeeConfigs <- MCFeeConfigs
    Recipients <- Roles
    RESERVE = "liquidity"
    Layouts <- MCLayouts
    PurchaseAmounts = {300, 700}
    InitialLamports <- MCInitialLamports
INVARIANT PurchasePossible

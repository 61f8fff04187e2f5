SPECIFICATION StepsSpec
CONSTANTS
    u1 = u1
    u2 = u2
    eur_acc = eur_acc
    sol_acc = sol_acc
    eur_feed = eur_feed
    sol_feed = sol_feed
    NoAccount = NoAccount
    NoCall = NoCall
    Users = {u1, u2}
    PriceAccounts = {eur_acc, sol_acc}
    FeedIds = {eur_feed, sol_feed}
    Bumps = {255}
    CanonicalBump <- MCCanonicalBump
    FeedOf <- MCFeedOf
    Prices <- MCPrices
    Exponents <- MCExponents
    MAX_AGE = 0
    RATE_SCALE = 10
    U64_MAX = 100000
    F64_ERR = 0
    RATE_PROGRAM = rate_program
    SEEDS_PROGRAM = rate_program
    EUR_USD_FEED = eur_feed
    SOL_USD_FEED = sol_feed
    SHARE_SCALE = 100
    FeeConfigs <- MCFeeConfigs
    Recipients <- Roles
    RESERVE = "liquidity"
    Layouts <- MCLayouts
    PurchaseAmounts = {300}
    InitialLamports <- MCInitialLamports
INVARIANT StepsTypeOK
PROPERTY ImplementsPurchase

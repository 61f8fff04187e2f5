SPECIFICATION EurCoinSpec
CONSTANTS
    u1 = u1
    u2 = u2
    ata1 = ata1
    ata2 = ata2
    eur_acc = eur_acc
    sol_acc = sol_acc
    eur_feed = eur_feed
    sol_feed = sol_feed
    NoAccount = NoAccount
    Users = {u1, u2}
    PriceAccounts = {eur_acc, sol_acc}
    FeedIds = {eur_feed, sol_feed}
    Bumps = {255}
    CanonicalBump <- MCCanonicalBump
    FeedOf <- MCFeedOf
    Prices <- MCPrices
    Exponents <- MCExponents
    MAX_AGE = 0
    RATE_SCALE = 1
    U64_MAX = 2
    F64_ERR = 0
    RATE_PROGRAM = rate_program
    SEEDS_PROGRAM = rate_program
    EUR_USD_FEED = eur_feed
    SOL_USD_FEED = sol_feed
    SHARE_SCALE = 2
    FeeConfigs <- MCFeeConfigs
    Recipients <- MCRecipients
    RESERVE = "reserve"
    Layouts <- MCLayouts
    PurchaseAmounts = {2}
    InitialLamports <- MCInitialLamports
    KeyAccounts = {k1}
    AtaAddresses = {ata1, ata2}
    Ata <- MCAta
    MetadataKey = metadata_key
    MetadataValues = {m1}
    TokenAmounts = {1, 2}
INVARIANTS
    
    SupplyConserved
PROPERTIES
    P2PIsFreeAndOwned

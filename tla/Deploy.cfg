SPECIFICATION DeployFairSpec
CONSTANTS
    Sessions = {s1, s2}
    MintKeys = {m0, m1, m2}
    AccountKeys = {a1, a2}
    OldMintKey = m0
    NoKey = NoKey
    NoMint = NoMint
    NoTokenAccount = NoTokenAccount
    MAINNET = TRUE
    MINT_AMOUNT = 2
    U64_MAX = 5
INVARIANTS
    DeployTypeOK
    IssuedOnce
PROPERTIES
    AbandonedForGood
    OperationsEnd
CHECK_DEADLOCK FALSE

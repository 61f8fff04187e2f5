SPECIFICATION ClientSpec
CONSTANTS
    u1 = u1
    u2 = u2
    ata1 = ata1
    ata2 = ata2
    s1 = s1
    s2 = s2
    NoAccount = NoAccount
    Users = {u1, u2}
    U64_MAX = 1
    F64_ERR = 0
    KeyAccounts = {}
    AtaAddresses = {ata1, ata2}
    Ata <- MCAta
    MetadataKey = metadata_key
    MetadataValues = {m1}
    TokenAmounts = {1}
    Sessions = {s1, s2}
    Payer <- MCPayer
    OwnMintAta <- MCOwnMintAta
    CLIENT_METADATA = m1
    CLIENT_UPDATE = m1
    CLIENT_AMOUNT = 1
INVARIANTS
    ClientTypeOK
    ReportsAreTrue
PROPERTIES
    
    ClientOperationsEnd

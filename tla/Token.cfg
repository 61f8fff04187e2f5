SPECIFICATION TokenSpec
CONSTANTS
    u1 = u1
    u2 = u2
    ata1 = ata1
    ata2 = ata2
    NoAccount = NoAccount
    Users = {u1, u2}
    U64_MAX = 4
    F64_ERR = 0
    KeyAccounts = {k1, k2}
    AtaAddresses = {ata1, ata2}
    Ata <- MCAta
    MetadataKey = metadata_key
    MetadataValues = {m1, m2}
    TokenAmounts = {0, 1, 3}
INVARIANTS
    TokenTypeOK
    SupplyConserved

    
    
    
    
    

SPECIFICATION MintSpec
\* Lamports at an address nobody signs for stay there: everything may stop.
CHECK_DEADLOCK FALSE
CONSTANTS
    m1 = m1
    u1 = u1
    u2 = u2
    ata1 = ata1
    ata2 = ata2
    metas1 = metas1
    NoAccount = NoAccount
    Users = {u1, u2}
    U64_MAX = 8
    F64_ERR = 0
    MintAddresses = {m1}
    AtaOf <- MCAtaOf
    MetasOf <- MCMetasOf
    MetadataLens = {1, 2}
    BASE_LEN = 3
    ATA_LEN = 2
    METAS_LEN = 1
    MinimumBalance <- MCMinimumBalance
    InitialFunds <- MCInitialFunds
INVARIANTS
    MintTypeOK
    RentExempt
PROPERTIES
    CreatedExactly
    

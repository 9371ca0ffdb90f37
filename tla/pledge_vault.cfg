CONSTANTS
    BPS_DENOMINATOR = 10
    PRICE_SCALE = 1
    U32_MAX = 100
    SECONDS_PER_YEAR = 1
    Party = {borrower}
    Asset = {rwa, bond}
    None = None
    Limits = {1}
    Rates = {5}
    Amounts = {1}
    Units <- UpToTwo
    Configs <- OneConfig
    VaultConfigs <- EscrowAndLien
    PriceReadings <- SoundAndDegraded
    CloseSeconds = {1}
    MaxLines = 1
    MaxFunded = 1
    MaxLedger = 1
    MaxUnits = 2
SPECIFICATION VaultSpec
INVARIANTS
    CollateralInStep
    EscrowBacked

    

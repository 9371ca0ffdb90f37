CONSTANTS
    BPS_DENOMINATOR = 10
    PRICE_SCALE = 1
    U32_MAX = 100
    SECONDS_PER_YEAR = 1
    Party = {party}
    Asset = {rwa}
    None = None
    Limits = {1}
    Rates = {0}
    Amounts = {1}
    Units <- UpToTwo
    Configs <- OneConfig
    VaultConfigs <- EscrowOnly
    PriceReadings <- TwoPrices
    CloseSeconds = {1}
    MaxLines = 1
    MaxFunded = 1
    MaxLedger = 1
    MaxUnits = 2
    CURE = 1
    EVENT_LOOKBACK = 1
    MaxPledged = 2
    MaxFailures = 1
SPECIFICATION KeeperSpec
INVARIANTS
    
    SeizureWithinRecord
PROPERTIES
    DriftRepaired
    LiquidationCarriedOn

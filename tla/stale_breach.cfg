CONSTANTS
    BPS_DENOMINATOR = 10
    PRICE_SCALE = 1
    U32_MAX = 100
    SECONDS_PER_YEAR = 1
    Party = {lender, borrower}
    Asset = {rwa}
    None = None
    Limits = {2}
    Rates = {5}
    Amounts = {1, 2}
    Units = {2}
    Configs <- OneConfig
    PriceReadings <- CrashAndRecovery
    CloseSeconds = {1}
    MaxLines = 1
    MaxFunded = 2
    MaxLedger = 3
SPECIFICATION Spec
PROPERTIES
    OneReadNeverLiquidates

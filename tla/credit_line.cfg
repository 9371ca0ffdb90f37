CONSTANTS
    BPS_DENOMINATOR = 10
    PRICE_SCALE = 1
    U32_MAX = 100
    SECONDS_PER_YEAR = 1
    Party = {lender}
    Asset = {rwa}
    None = None
    Limits = {1}
    Rates = {10}
    Amounts = {1, 2}
    Units = {2}
    Configs <- SoundAndRefused
    PriceReadings <- TwoPrices
    CloseSeconds = {1}
    MaxLines = 2
    MaxFunded = 1
    MaxLedger = 2
SPECIFICATION Spec
INVARIANTS
    LiquidationLifecycle
    OutcomeReconciles
    UsdcBacked
PROPERTIES
    DebtMovesWithCash

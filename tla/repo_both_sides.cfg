CONSTANTS
    BPS_DENOMINATOR = 10
    PRICE_SCALE = 1
    U32_MAX = 100
    SECONDS_PER_YEAR = 1
    SECONDS_PER_LEDGER = 1
    UNWIND_ALLOWANCE_GRACE_LEDGERS = 1
    ALLOWANCE_EXPIRY_BUCKET_LEDGERS = 1
    MaxTtl = 20
    MIN_GRACE_SECONDS = 1
    DEFAULT_GRACE_SECONDS = 1
    TIMELOCK_DELAY_SECONDS = 1
    Lenders = {alice, bob}
    Borrowers = {bob, carol}
    Contract = contract
    Asset = {"rwa"}
    None = None
    Terms <- LongAndShort
    TopUps = {}
    Scopes = {}
    Graces = {}
    Configs <- OneConfig
    PriceReadings <- OnePrice
    MaxIds = 2
    MaxUnits = 2
    MaxLedger = 4
SPECIFICATION ScenarioSpec
INVARIANTS
    EveryTradeCollectable

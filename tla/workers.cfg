CONSTANTS
    None = None
    MaxFaults = 1
    Subs = {s1}
    Rows = {r1}
    RowKinds <- CallAndExit
    Wants <- WantsBoth
    WINDOW = 1
    MAX_ATTEMPTS = 2
    BACKOFF <- OneThenTwo
    BATCH_SIZE = 1
    RpcNodes = {n1, n2}
    RPC_RETENTION = 1
    COLD_START_LOOKBACK_LEDGERS = 1
    PAGE_SIZE = 1
    MaxLedgers = 3
    MaxEvents = 2
    Keepers = {k1, k2}
    Jobs = {"cure-expiry", "sync-collateral"}
    LOCK_SCOPE = "job"
    MATURITY = 1
    GRACE = 1
    MaxCallRows = 2
    MaxRepoTime = 2
    Cycles = {c1, c2}
    HasNavApi = TRUE
    Shadow = FALSE
    MaxTs = 2
SPECIFICATION WorkersSpec
INVARIANTS
    OutboxIsTrue
    NothingLostSilently
    
PROPERTIES
    DeliveriesEnd
    EventsGetIndexed
    LaneNeverJams
    EndedTradeBooked
    FeedKeepsFlowing
CHECK_DEADLOCK FALSE

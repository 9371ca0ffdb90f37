CONSTANTS
    BPS_DENOMINATOR = 10
    MAX_FUTURE_SKEW_S = 1
    TIMELOCK_DELAY_SECONDS = 2
    SORT_CAPACITY = 3
    None = None
    Sources = {"issuer", "feed", "redemption"}
    ISSUER_SOURCE = "issuer"
    Keys = {key, rotated}
    Prices = {4, 5, 6}
    ReadingTimes = {0, 2}
    GuardConfigs <- ManySettings
    SignatureChoices = {TRUE, FALSE}
    Changes <- OneOfEachChange
    MaxPrice = 6
    MaxDailyBand = 2
    MaxWindowBand = 3
    MinWindow = 2
    MaxChanges = 2
    MaxTime = 3
SPECIFICATION ScenarioSpec
PROPERTIES
    NoMinorityMovesPrice
    FeedSpec
    

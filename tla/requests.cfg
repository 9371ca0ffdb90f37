CONSTANTS
    None = None
    MaxFaults = 1
    Legs = {l1, l2}
    l1 = l1
    l2 = l2
    q2 = q2
    FirstLegs <- TwoUnitLegs
    Requests <- SomeRequests
    Policy <- OneAnchor
    InternalToken = "secret"
    Workers = {w1, w2}
    MaxRequests = 3
    IdemKeys = {key}
    IdemParams = {p, q}
    GatewayWorkers = {w1, w2}
    MaxCalls = 4
    Pledges = {p1, p2}
    UnitsOf <- TwoUnitsEach
    TOLERANCE_UNITS = 1
    Servers = {v1, v2}
    KeyIds = {"key"}
    Messages <- OneMessage
    TOLERANCE = 1
    RETENTION_S = 2
    SESSION_TTL = 3
    MAX_ACTIVE_KEYS = 1
    FAILURES = 0
    KEY_REQUESTS = 1
    RATE_WINDOW = 1
    MaxClock = 4
    GateRequests = {g1, g2}
    Entries = {e1}
    Aliases = {e1}
    SCREENING_TTL = 1
    REFRESH = 1
    MAX_AGE = 2
    MaxTime = 3
    MaxChecks = 2
SPECIFICATION RequestsSpec
INVARIANTS
    
    
    OneAnswerPerKey
    OneObligationUnlessLost
    
    
    
    StaleListFailsClosed
PROPERTIES
    PayoutClaimsOnce
CHECK_DEADLOCK FALSE

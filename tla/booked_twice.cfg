CONSTANTS
    Tx = {t1}
    Submitters = {user}
    Sweeper = sweeper
    None = None
    Kinds = {"credit_line.repay"}
    Books <- JustOpened
    TIMEOUT = 1
    MARGIN = 1
    LAG = 1
    RETENTION = 2
    LastRequest = 0
    MaxTime = 3
    MaxFaults = 1
SPECIFICATION IntentSpec
INVARIANTS
    AppliedOnce

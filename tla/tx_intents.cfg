CONSTANTS
    Tx = {t1, t2}
    Submitters = {user}
    Sweeper = sweeper
    None = None
    Kinds = {"credit_line.close_liquidated", "pledge.create", "pledge.release", "exit.execute"}
    Books <- EachAlone
    TIMEOUT = 1
    MARGIN = 1
    LAG = 1
    RETENTION = 2
    LastRequest = 0
    MaxTime = 3
    MaxFaults = 1
SPECIFICATION IntentSpec
INVARIANTS
    FinalStatusIsTrue
    AppliedOnceUnlessFlagged
PROPERTIES
    
    EveryIntentEnds

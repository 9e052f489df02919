SPECIFICATION FairSpec
CONSTANTS
    t1 = t1
    t2 = t2
    t3 = t3
    r1 = r1
    r2 = r2
    f1 = f1
    f2 = f2
    None = None
    Tasks <- ThreeTasks
    Ids <- TwoIds
    Fingerprints <- TwoPrints
    Costs = {1, 2}
    Balance = 3
    KeyQuota = 1
    AccountLimit = 3
    TopUpAmount = 5
    PoolQueue = 2
    WriteQueue = 1
    WriteWorkers = 2
    MaxLoads = 2
    Situations <- TheSituations
CHECK_DEADLOCK FALSE
INVARIANTS
    DoneIsCharged
    ToldOnce
    CacheIsExact
PROPERTIES
    ChargedOnce
    QueuedIsCharged
    DeductionArrives
    ExhaustionIsTold

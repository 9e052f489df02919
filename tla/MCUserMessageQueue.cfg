SPECIFICATION FairSpec
CONSTANTS
    r1 = r1
    r2 = r2
    r3 = r3
    c1 = c1
    Orphan = Orphan
    NoRequest = NoRequest
    Requests <- SomeRequests
    Cleaners <- OneCleaner
    LockTTL = 3
    WaitTimeout = 2
    Delays <- SomeDelays
    LastTTL = 2
    FaultModels <- SomeFaults
INVARIANTS
    HolderKeepsLock
PROPERTIES
    OneAtATime
    Paced
    OrphansAreFreed
    NobodyWaitsForever

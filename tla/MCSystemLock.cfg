SPECIFICATION SystemLock
CONSTANTS
    w1 = w1
    w2 = w2
    w3 = w3
    f1 = f1
    f2 = f2
    NoFingerprint = NoFingerprint
    Workers <- TwoWorkers
    Fingerprints <- TwoOperations
    Faults <- AllFaults
    Lease = 4
    RenewInterval = 1
    TTL = 5
    MaxClaim = 1
    MaxTime = 9
SYMMETRY LockSymmetry
CHECK_DEADLOCK FALSE
PROPERTIES
    HeldIsLocked
    LockSpec

SPECIFICATION Spec
CONSTANTS
    w1 = w1
    w2 = w2
    w3 = w3
    f1 = f1
    f2 = f2
    NoFingerprint = NoFingerprint
    Workers <- ThreeWorkers
    Fingerprints <- TwoFingerprints
    Faults <- AllFaults
    TTL = 3
    ProcessingTimeout = 2
    FailedRetryBackoff = 1
    MaxClaim = 1
    MaxCall = 2
    MaxTime = 7
SYMMETRY KeySymmetry
CHECK_DEADLOCK FALSE
INVARIANTS
    OneExecution
    EffectOnce
    ReplayMatchesRequest

SPECIFICATION Spec
CONSTANTS
    i1 = i1
    i2 = i2
    b1 = b1
    b2 = b2
    r1 = r1
    NoWorker = NoWorker
    None = None
    Instances <- TwoInstances
    Background <- Loops
    Requests <- OneRequest
    InstanceOf <- Home
    MaxGen = 2
    MaxMishaps = 1
    FaultModels <- SlowCalls
CHECK_DEADLOCK FALSE
INVARIANTS
    RefreshRaceIsNoError

SPECIFICATION Spec
CONSTANTS
    o1 = o1
    w1 = w1
    w2 = w2
    NoOrder = NoOrder
    Orders <- OneOrder
    Workers <- TwoWorkers
    Amount = 2
    MaxRefunds = 2
    FaultModels <- SomeFaults
SYMMETRY WorkerSymmetry
CHECK_DEADLOCK FALSE
INVARIANTS
    OneRefunder
    PaidBackOnce
    NothingTakenUnlessRefunded
    TakenOnce

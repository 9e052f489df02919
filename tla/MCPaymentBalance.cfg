SPECIFICATION Spec
CONSTANTS
    b1 = b1
    s1 = s1
    NoOrder = NoOrder
    w1 = w1
    w2 = w2
    w3 = w3
    Orders <- OneBalanceOrder
    BalanceOrders <- OneBalanceOrder
    Workers <- TwoWorkers
    MaxGrants = 2
    Faults = TRUE
SYMMETRY WorkerSymmetry
CHECK_DEADLOCK FALSE
INVARIANTS
    BalanceCreditedOnce
    DeliveredOnlyIfPaid
    CompletedIsDelivered
    RebateOnceAndEarned
    OneFulfiller
PROPERTIES
    CompletedIsFinal

SPECIFICATION FairSpec
CONSTANTS
    b1 = b1
    s1 = s1
    NoOrder = NoOrder
    w1 = w1
    w2 = w2
    w3 = w3
    Orders <- OneSubscriptionOrder
    BalanceOrders <- NoOrders
    Workers <- ThreeWorkers
    MaxGrants = 2
    Faults = FALSE
CHECK_DEADLOCK FALSE
INVARIANTS
    SubscriptionExtendedOnce
PROPERTIES
    PaymentIsSettled

SPECIFICATION FairSpec
CONSTANTS
    r1 = r1
    r2 = r2
    p1 = p1
    p2 = p2
    i1 = i1
    i2 = i2
    i3 = i3
    NoId = NoId
    Requests <- TwoRequests
    Processes <- TwoProcesses
    Home <- OneEach
    Ids <- ThreeIds
    Limit = 1
    MaxWait = 2
    SlotTTL = 3
    WaitTTL = 3
    Faults <- AllFaults
PROPERTIES
    HeldIsCounted
    WaitersCounted
    SemaphoreSpec
    LeakedSlotReturns

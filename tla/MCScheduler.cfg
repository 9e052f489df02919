SPECIFICATION FairSpec
CONSTANTS
    p1 = p1
    p2 = p2
    f1 = f1
    r1 = r1
    e1 = e1
    u1 = u1
    k1 = k1
    k2 = k2
    k3 = k3
    NoKey = NoKey
    NoWorker = NoWorker
    Pollers <- TwoPollers
    Rebuilders <- OneRebuilder
    Readers <- OneReader
    Editors <- OneEditor
    Flushers <- OneFlusher
    Keys <- SomeKeys
    MaxChange = 2
    MaxEvent = 2
    MaxCrashes = 1
    Situations <- SomeSituations
CHECK_DEADLOCK FALSE
INVARIANTS
    ListsAreWhole
    NoEventSkipped
PROPERTIES
    Converges

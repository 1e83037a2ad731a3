CONSTANTS
    o1 = o1
    o2 = o2
    l1 = l1
    l2 = l2
    w1 = w1
    d1 = d1
    d2 = d2
    Orders <- OneOrder
    Lots <- OneLot
    LotOf <- LotOfOne
    Workers <- OneWorker
    NoOrder = NoOrder
    Sweepers <- TwoSweepers
    NCodes = 1
    MaxAttempts = 1
    PageSize = 100
    Threshold = 2
    MaxBroken = 1
    Hazards = {"timeout", "releaseTimeout"}
    Faults = {"notifier", "kill"}
SPECIFICATION DSpec
INVARIANTS
    DTypeOK
    RepeatsAreBreaks

CONSTANTS
    o1 = o1
    o2 = o2
    l1 = l1
    l2 = l2
    w1 = w1
    d1 = d1
    d2 = d2
    Orders <- OneOrder
    Lots <- OneLot
    LotOf <- LotOfOne
    Workers <- OneWorker
    NoOrder = NoOrder
    Sweepers <- OneSweeper
    NCodes = 1
    MaxAttempts = 1
    PageSize = 1
    Threshold = 2
    MaxBroken = 0
    Hazards = {}
    Faults = {"notifier"}
SPECIFICATION FairDSpec
PROPERTY DueMailIsTried

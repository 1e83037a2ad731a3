CONSTANTS
    o1 = o1
    o2 = o2
    l1 = l1
    w1 = w1
    w2 = w2
    Orders <- OneOrder
    Lots <- OneLot
    LotOf <- LotOfOne
    Workers <- OneWorker
    NoOrder = NoOrder
    NCodes = 1
    MaxAttempts = 1
    Hazards = {"smm", "releaseTimeout"}
SPECIFICATION FairSpec
PROPERTY GoneMeansClosed

CONSTANTS
    o1 = o1
    o2 = o2
    l1 = l1
    w1 = w1
    w2 = w2
    Orders <- OneOrder
    Lots <- OneLot
    LotOf <- LotOfOne
    Workers <- TwoWorkers
    NoOrder = NoOrder
    NCodes = 2
    MaxAttempts = 2
    Hazards = {"crash", "line", "smm", "roster", "manual", "control", "query", "reject", "timeout", "lost", "releaseTimeout"}
SPECIFICATION Spec
SYMMETRY Interchangeable
INVARIANTS
    TypeOK
    NoDoubleHold
    HoldIsOwned
    ClosedHasNoHold
    CallsExclude
    ReleaseAfterScan
    OwnershipInv
    FailureIsAlarmed
PROPERTIES
    OneCommandPerCode
    ReviewIsKept

CONSTANTS
    set1 = set1
    check1 = check1
    confirm1 = confirm1
    hostA = hostA
    hostB = hostB
    NoJob = NoJob
    NCodes = 1
    MaxAttempts = 2
    Orders <- OneOrder
    Setters <- SetJobs
    Checkers <- CheckJobs
    Confirmers <- ConfirmJobs
    WorkerId <- TwoHosts
    Lease = 1
    MaxClock = 2
    MaxPasses <- TwoPassesEach
    Closable <- FirstOrder
SPECIFICATION Spec
INVARIANTS
    TypeOK
    JournalOK
    CallsAreBounded
    StoreInv
PROPERTIES
    Implements
    LeaseIsKept
CHECK_DEADLOCK FALSE

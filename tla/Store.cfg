CONSTANTS
    set1 = set1
    check1 = check1
    confirm1 = confirm1
    hostA = hostA
    hostB = hostB
    NoJob = NoJob
    NCodes = 1
    MaxAttempts = 2
    Orders <- TwoOrders
    Setters <- SetJobs
    Checkers <- CheckJobs
    Confirmers <- ConfirmJobs
    WorkerId <- TwoHosts
    Lease = 1
    MaxClock = 1
    MaxPasses <- CheckTwice
    Closable <- SecondOrder
SPECIFICATION FromNewBeforeRefused
INVARIANTS
    TypeOK
    JournalOK
    CallsAreBounded
PROPERTIES
    Implements
    LeaseIsKept
CHECK_DEADLOCK FALSE

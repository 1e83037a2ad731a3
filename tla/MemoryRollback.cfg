CONSTANTS
    o1 = o1
    o2 = o2
    k1 = k1
    k2 = k2
    w1 = w1
    w2 = w2
    lotWafer = lotWafer
    alarm = alarm
    event = event
    None = None
    NCodes = 1
    MaxAttempts = 2
    Ids <- TwoIds
    Keys <- TwoKeys
    Workers <- TwoWorkers
    Wafers <- OneWafer
    Alarms <- OneAlarm
    Events <- OneEvent
    MaxGen = 2
    MaxWrites = 2
SPECIFICATION Spec
SYMMETRY Names
INVARIANTS
    RollbackLeavesNothing
CHECK_DEADLOCK FALSE

CONSTANTS
    Flows <- SomeFlows
    Roster <- TwoWafers
    ListedWafers <- ThreeWafers
    Versions <- NineAndTen
    Settle = 1
    MaxFlows = 2
    MaxRows = 3
    MaxAttempts = 2
    MaxClock = 2
SPECIFICATION FairSpec
INVARIANTS
    TypeOK
    ChoiceIsRight
    FirstCallFitsFlow
    ReleaseIsSettled
PROPERTY ScannedLotGoes
CHECK_DEADLOCK FALSE

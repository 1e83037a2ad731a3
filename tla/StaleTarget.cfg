CONSTANTS
    Flows <- SomeFlows
    Roster <- TwoWafers
    ListedWafers <- ThreeWafers
    Versions <- NineAndTen
    Settle = 1
    MaxFlows = 2
    MaxRows = 1
    MaxAttempts = 2
    MaxClock = 2
SPECIFICATION Spec
INVARIANT CallFitsPosition
CHECK_DEADLOCK FALSE

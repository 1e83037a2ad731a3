CONSTANTS
    Lots <- ThreeLots
    Scope <- TwoLots
    Starts <- SomeStarts
    Tails <- TwoTails
    Lookback = 0
    PageSize = 1
    MaxEvents = 3
    MaxClock = 1
    MaxCrashes = 0
SPECIFICATION Spec
INVARIANT RecordedHasOrder
CHECK_DEADLOCK FALSE

CONSTANTS
    Lots <- ThreeLots
    Scope <- TwoLots
    Starts <- SomeStarts
    Tails <- TwoTails
    Lookback = 0
    PageSize = 1
    MaxEvents = 3
    MaxClock = 1
    MaxCrashes = 1
SPECIFICATION FairSpec
INVARIANTS
    TypeOK
    RecordedIsKept
    WalkMissesNone
PROPERTIES
    RosterChangeIsKept
    OrderIsMadeOnce
    EventsAreTakenUp
    LostIsNoticed
CHECK_DEADLOCK FALSE

SPECIFICATION FairSpec
CONSTANTS
    RingSize = 2
    MaxEvents = 4
    MaxTicks = 2
CHECK_DEADLOCK FALSE
INVARIANTS
    TypeOK
    AtMostOneLate
    EventsHandledOnce
PROPERTIES
    StopsOnTraffic
    InterruptStopsDisplay
    RefreshComes
    RingDrains

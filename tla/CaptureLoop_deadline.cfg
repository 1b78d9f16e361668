SPECIFICATION FairSpec
CONSTANTS
    RingSize = 1
    MaxEvents = 1
    MaxTicks = 1
CHECK_DEADLOCK FALSE
PROPERTIES
    DeadlineHonoured

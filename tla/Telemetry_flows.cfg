SPECIFICATION FairSpec
CONSTANTS
    n1 = n1
    n2 = n2
    Nodes <- OneNode
    NumTables = 1
    MaxClock = 3
    MaxEvents = 1
    MaxConnects = 1
    MaxFaults = 1
CHECK_DEADLOCK FALSE
PROPERTIES
    ConnectEventsReported

SPECIFICATION FairSpec
CONSTANTS
    n1 = n1
    n2 = n2
    Nodes <- OneNode
    NumTables = 2
    MaxClock = 3
    MaxEvents = 1
    MaxConnects = 1
    MaxFaults = 2
CHECK_DEADLOCK FALSE
PROPERTIES
    TickPublishes
    AgentComesBack
    InterruptEnds

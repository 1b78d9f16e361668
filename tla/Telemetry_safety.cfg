SPECIFICATION Spec
CONSTANTS
    n1 = n1
    n2 = n2
    Nodes <- TwoNodes
    NumTables = 1
    MaxClock = 3
    MaxEvents = 1
    MaxConnects = 0
    MaxFaults = 2
CHECK_DEADLOCK FALSE
SYMMETRY NodeSymmetry
INVARIANTS
    TypeOK
    OneCallPerAgent
    NeverOverstated
    LiveIsNewest
PROPERTIES
    OnlyLateCallsRegress
    RowsStayShown
    ImplementsRegister

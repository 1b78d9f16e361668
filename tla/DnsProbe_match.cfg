SPECIFICATION Spec
CONSTANTS
    c1 = c1
    c2 = c2
    CPUs <- TwoCPUs
    Ports <- MixedPorts
    Capacity = 2
    RingSize = 2
    MaxQueries = 3
    MaxDeliveries = 3
SYMMETRY CPUSymmetry
CHECK_DEADLOCK FALSE
INVARIANTS
    TypeOK
    SampledQueryIsGone
    NeverFromEarlierQuery
    MissesExplained

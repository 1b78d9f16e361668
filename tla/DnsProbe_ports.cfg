SPECIFICATION Spec
CONSTANTS
    c1 = c1
    c2 = c2
    CPUs <- OneCPU
    Ports <- OnePort
    Capacity = 2
    RingSize = 2
    MaxQueries = 1
    MaxDeliveries = 1
CHECK_DEADLOCK FALSE
INVARIANTS
    AnswersRecognised

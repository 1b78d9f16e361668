SPECIFICATION Spec
CONSTANTS
    c1 = c1
    c2 = c2
    k1 = k1
    k2 = k2
    CPUs <- TwoCPUs
    Keys <- OneKey
    Sizes = {1, 2}
    Capacity = 1
    Wrap = 16
    MaxRuns = 3
    MaxWatches = 2
SYMMETRY CPUSymmetry
CHECK_DEADLOCK FALSE
INVARIANTS
    DeltaWithinSeen

SPECIFICATION Spec
CONSTANTS
    c1 = c1
    c2 = c2
    CPUs <- TwoCPUs
    Samples = {0, 3, 9, 18}
    W32 = 16
    Top = 2
    Others <- OtherRows
    MaxRuns = 3
SYMMETRY CPUSymmetry
CHECK_DEADLOCK FALSE
INVARIANTS
    TypeOK
    CountsTally
    SamplesLostOnlyToRaces
    ExtremesBracket
    ExtremesExact
    TornCopyPercentiles
    ReportExact

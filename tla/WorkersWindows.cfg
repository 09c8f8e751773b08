SPECIFICATION Spec
CONSTANTS
    f1 = f1
    f2 = f2
    Samples <- TwoSamples
    Threads = 2
    Platform = "windows"
    MaxFaults = 1
SYMMETRY SampleSymmetry
CHECK_DEADLOCK FALSE
INVARIANTS
    TypeOK
    AnalyzedMeansFinished
    
    DeadlineEnforced

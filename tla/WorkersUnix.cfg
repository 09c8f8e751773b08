SPECIFICATION FairSpec
CONSTANTS
    f1 = f1
    f2 = f2
    Samples <- TwoSamples
    Threads = 1
    Platform = "macos"
    MaxFaults = 1
CHECK_DEADLOCK FALSE

    
PROPERTIES
    
    BatchReports
    FinishedIsAnalyzed

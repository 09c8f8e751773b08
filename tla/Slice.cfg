SPECIFICATION RunSpec
CONSTANTS
    Regs <- TwoRegs
    Blocks <- FourBlocks
    Programs <- SlicePrograms
    MaxInstructions = 3
    MaxBasicBlocks = 3
    AllowMemory = FALSE
    AllowCalls = TRUE
    UnknownsOnTruncation = TRUE
    MaxPath = 6
CHECK_DEADLOCK FALSE
INVARIANTS
    TypeOK
    SliceClosed
    SliceFaithful
    RoundingPinned

SPECIFICATION MergeSpec
CONSTANTS
    Regs <- TwoNames
    Blocks <- FiveBlocks
    Codes <- CarryCodes
    Programs = {}
    MaxInstructions = 4
    MaxBasicBlocks = 3
    AllowMemory = FALSE
    AllowCalls = FALSE
    UnknownsOnTruncation = FALSE
    Width = 2
    MaxArm = 3
    MaxUnroll = 5
    Sorted <- InOrder
    Fuel = 8
CHECK_DEADLOCK FALSE
INVARIANTS
    NeverFabricates

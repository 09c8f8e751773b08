SPECIFICATION Spec
CONSTANTS
    X86Bits <- MCX86Bits
    A64Bits <- MCA64Bits
    A32Bits <- MCA32Bits
    X86Cells = 8
    ArmCells = 16
    CountMask <- MCCountMask
    AmountMask = 15
    Programs <- MCPrograms
    Values <- MCValues
INVARIANTS
    LiftAgrees
    SliceDecides
CHECK_DEADLOCK FALSE

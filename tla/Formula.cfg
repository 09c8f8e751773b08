SPECIFICATION RunSpec
CONSTANTS
    a = a
    b = b
    byte = byte
    zf = zf
    h1 = h1
    h2 = h2
    Widest = 4
    ByteBits = 2
    StoreCap = 3
    MaxPasses = 2
    MaxStatements = 3
    Registers <- MCRegisters
    Hidden <- MCHidden
    Statements <- MCStatements
    Conditions <- MCConditions
    Starts <- MCStarts
    Width <- MCWidth
    Memory <- MCMemory
INVARIANTS SliceIsTrue FormulaHolds NoWidthConflict TaintIsSound
CHECK_DEADLOCK FALSE

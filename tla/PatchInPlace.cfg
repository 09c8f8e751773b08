SPECIFICATION Spec
CONSTANTS
    s1 = s1
    s2 = s2
    Slots <- TwoSlots
    InPlace = TRUE
    MaxCommands = 4
    MaxFaults = 2
    MaxKills = 2
    MaxEdits = 1
SYMMETRY SlotSymmetry
CHECK_DEADLOCK FALSE
INVARIANTS
    TypeOK
    OriginalRecoverable
    CommittedIsTrue
    AllOrNothing
PROPERTIES
    FailureLeavesTarget
    BackupNeverOverwritten
    RollbackRestores
    OnlyApprovedBytes
    ImplementsContract

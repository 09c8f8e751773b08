SPECIFICATION FairSpec
CONSTANTS
    s1 = s1
    s2 = s2
    Slots <- TwoSlots
    InPlace = FALSE
    MaxCommands = 3
    MaxFaults = 2
    MaxKills = 1
    MaxEdits = 0
CHECK_DEADLOCK FALSE
PROPERTIES
    
    CleanRollbackSucceeds

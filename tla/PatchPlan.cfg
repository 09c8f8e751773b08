CONSTANTS
    Programs <- MCPrograms
    Reports <- MCReports
    Twice = TRUE
SPECIFICATION Spec
INVARIANTS
    
    OperationsDisjoint
CHECK_DEADLOCK FALSE

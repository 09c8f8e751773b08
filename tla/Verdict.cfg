SPECIFICATION FairSpec
CONSTANTS
    Requests <- SmallRequests
    MaxInstructions = 2
    Budgetless = 20
    Costs = {1, 9, 30}
CHECK_DEADLOCK FALSE
INVARIANTS
    RewritesAreSound
    EveryBranchFound
    PlanIsBuilt
PROPERTIES
    ProofPrevails
    AnalysisEnds

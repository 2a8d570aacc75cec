SPECIFICATION Spec
CONSTANTS
    Plans <- MCPlans
    MayFail = TRUE
INVARIANTS
    OutputIsExact
PROPERTIES
    EveryPlanEnds

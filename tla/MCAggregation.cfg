SPECIFICATION Spec
CONSTANTS
    I128Max = 15
    Tasks <- MCTasks
    Cases <- MCCases
INVARIANTS
    AggTypeOK
    
    
    MomentsMatchDefinition

SPECIFICATION RowSpec
CONSTANTS
    WordBits = 2
    I128Bytes = 3
    Cases <- MCCases
    Ratios = {10, 15}
    BatchSize = 3
    RowStep = 2
INVARIANTS
    SupportedTypesAreBuilt
    RowsSurvive
    BuildersStayAligned
CHECK_DEADLOCK FALSE

SPECIFICATION Spec
CONSTANTS
    b1 = b1
    b2 = b2
    b3 = b3
    b4 = b4
    Null = Null
    Blocks <- MCBlocks
    PageSize = 2
    TotalMemory = 7
    PageTableSize = 2
    MaximumPageSize = 5
    OffsetRange = 5
    Requests <- MCRequests
SYMMETRY BlockSymmetry
INVARIANTS TypeOK AccountingExact PointersResolve

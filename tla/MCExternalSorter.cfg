SPECIFICATION Spec
CONSTANTS
    Modes = {"sync", "async"}
    Limits = {1, 2, 5, 7}
    NumPartitions = 2
    Thresholds = {3, 9}
    PageRows = 2
    ArrayRows = 1
    MaxArray = 4
    ThreadNum = 2
    Checksums = {TRUE, FALSE}
    MayFail = TRUE
    MaxRecords = 6
INVARIANTS CommittedComplete NoUseAfterFree MemoryReturned
PROPERTY EveryWriteEnds

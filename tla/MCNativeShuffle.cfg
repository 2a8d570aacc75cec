SPECIFICATION Spec
CONSTANTS
    w = w
    o = o
    Consumers <- MCConsumers
    Writer = w
    PoolTypes = {"greedy_unified", "fair_unified"}
    SparkMemory = 2
    PoolSize = 3
    Schemes = {"hash", "range", "single"}
    NumPartitions = 3
    Keys = {1, 7}
    HashBits = 3
    Bounds <- MCBounds
    BatchSize = 2
    BufferMax = 7
    MaxRows = 3
    MayFail = TRUE
    MaxOther = 1
    MayCut = TRUE
INVARIANTS PoolAccountingExact MemoryReturned ReadsExact BatchesReleased
PROPERTIES ImplementsMapOutput EveryWriteEnds

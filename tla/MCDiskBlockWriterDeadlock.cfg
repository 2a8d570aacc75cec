SPECIFICATION FairSpec
CONSTANTS
    t1 = t1
    t2 = t2
    w1 = w1
    w2 = w2
    None = None
    Tasks = {t1, t2}
    Writers = {w1, w2}
    MaxRows = 2
    RowsPerPage = 1
    Configs <- MCScarce
PROPERTIES
    SpillReturns
CHECK_DEADLOCK FALSE

CONSTANTS
    Base = 2
    SwitchDay <- MCSwitchDay
    SwitchTs <- MCSwitchTs
    JulianEpoch = 2
    MicrosPerMilli = 3
    MicrosPerDay = 9
    NanosPerMicro = 2
    Radix = 3
    MaxIntDigits = 1
    MaxLongDigits = 4
    UInt64Digits = 6
    Capacity = 3
    GroupSize = 2
    Columns <- MCColumns
SPECIFICATION Spec
INVARIANTS
    ReadsMatchColumn
    LeftoverFitsNextPage
    ScanNeverFails
CHECK_DEADLOCK FALSE

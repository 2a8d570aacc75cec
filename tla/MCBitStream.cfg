SPECIFICATION Spec
CONSTANTS
    TotalBytes = 43
    Widths = {0, 10}
    Totals = {3, 33}
    BitCounts = {75}
    DstBytes = 14
    MaxBytes = 10
    ValueWidths = {5, 33, 64}
    VlqInts = {0, 1, 63, 64, 127, 128, 8191, 8192, 1048575, 1048576}
INVARIANTS
    ReadsAreConsecutive
    WritesLandInPlace

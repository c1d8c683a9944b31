SPECIFICATION Spec
CONSTANTS
    Width = 5
    IntWidth = 4
    Mantissa = 4
    Len = 3
    Pointer = 2
    Stride = 2
    Regions = {2, 3, 4, 5}
    Skipped = 1
    Times = {0, 2, 3, 7, 16}
INVARIANT TypeOK
INVARIANT AverageIfItFits
INVARIANT VarianceIfItFits

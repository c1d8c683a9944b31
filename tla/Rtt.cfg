SPECIFICATION FairSpec
CONSTANTS
    NIterations = 3
    DataSize = 3
    MaxShort = 2
    MaxFailures = 1
INVARIANT TypeOK
INVARIANT SameConnection
INVARIANT OwnBytesUnlessShort
PROPERTY ClientEnds

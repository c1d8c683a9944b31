SPECIFICATION FairSpec
CONSTANTS
    NIterations = 1
    DataSize = 6
    Buffer = 4
    MaxFailures = 1
INVARIANT ReadsEverything
PROPERTY BothEnd

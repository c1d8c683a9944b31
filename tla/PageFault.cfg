SPECIFICATION Spec
CONSTANTS
    NChunks = 4
    Chunk = 2
    PageSize = 3
    RandMax = 4
    NIterations = 2
    MaxExtra = 3
    MaxFailures = 1
INVARIANT TypeOK
INVARIANT FileFilled
INVARIANT TwoPagesOrNone
INVARIANT StaysInFile
INVARIANT FirstFromDisk

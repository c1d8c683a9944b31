SPECIFICATION Spec
CONSTANTS
    Width = 4
    Block = 2
    MaxSize = 7
    Capacity = 3
    Iterations = 3
    MaxFailures = 1
INVARIANT TypeOK
INVARIANT EntireFileInSequence
INVARIANT CrashesWithoutData
INVARIANT ColdOrWarm
INVARIANT AveragePerBlockUnlessFailed

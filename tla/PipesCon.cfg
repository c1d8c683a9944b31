SPECIFICATION FairSpec
CONSTANTS
    NTrials = 3
    NIterations = 3
    MaxFds = 8
    MaxFailures = 2
INVARIANT TypeOK
INVARIANT SampleComplete
PROPERTY TakeTurns
PROPERTY Completion
\* A side that exits on an error leaves the other blocked for good.
CHECK_DEADLOCK FALSE

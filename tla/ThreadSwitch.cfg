SPECIFICATION FairSpec
CONSTANTS
    NTrials = 3
    NIterations = 3
    MaxFailures = 3
INVARIANT TypeOK
INVARIANT OwnSlot
INVARIANT OwnPipes
PROPERTY TakeTurnsUnlessFailed
PROPERTY Completion
\* A thread that was not created leaves the other, and main(), blocked for good.
CHECK_DEADLOCK FALSE

SPECIFICATION FairSpec
CONSTANTS
    K = 2
    NTrials = 2
    MaxForkFailures = 1
    FailingTrials = {1, 2}
    FailingForks = {2}
INVARIANT TypeOK
INVARIANT ReadExclusion
INVARIANT HalfAtOnce
INVARIANT ColdRead
INVARIANT OwnTrialOnlyUnlessForkFails
INVARIANT CountsMainAndAChild
PROPERTY Termination

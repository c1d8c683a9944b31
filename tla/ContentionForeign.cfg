SPECIFICATION Spec
CONSTANTS
    K = 2
    NTrials = 2
    MaxForkFailures = 1
    FailingTrials = {1}
    FailingForks = {1, 2}
INVARIANT OwnTrialOnly

SPECIFICATION Spec
CONSTANTS
    K = 2
    NTrials = 1
    MaxForkFailures = 0
    FailingTrials = {}
    FailingForks = {}
INVARIANT SumComplete

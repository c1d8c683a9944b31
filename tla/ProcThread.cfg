SPECIFICATION Spec
CONSTANTS
    NTrials = 2
    Iterations = 3
    MaxBufLines = 2
    MaxFailures = 2
INVARIANT NobodyLeft
INVARIANT NoLineLost
INVARIANT MissingRunsFailed

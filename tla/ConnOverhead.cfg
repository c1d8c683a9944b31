SPECIFICATION FairSpec
CONSTANTS
    NIterations = 9
    QueueLimit = 2
    MaxFailures = 1
INVARIANT TypeOK
PROPERTY EveryConnectionAccepted

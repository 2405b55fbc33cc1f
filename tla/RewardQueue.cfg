SPECIFICATION FairSpec
CONSTANTS
    TotalSamples = 3
    N = 2
    Required = 1
    SyncStep = 1
    MaxRequired = 1
    MaxConcurrent = 1
    MaxRewardQueue = 2
    MaxFailures = 1
INVARIANTS
    TypeOK
    OneFate
PROPERTIES
    StreamEnds
CHECK_DEADLOCK FALSE

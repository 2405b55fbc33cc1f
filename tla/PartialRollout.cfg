SPECIFICATION FairSpec
CONSTANTS
    BatchSize = 2
    BatchesPerEpoch = 3
    Epochs = 2
    N = 2
    Workers = {w1, w2}
    TestSteps = {1}
    SaveSteps = {1, 3}
    MaxRestarts = 1
    w1 = w1
    w2 = w2
INVARIANTS
    TypeOK
    OwnedOnce
    CountsAgree
    EngineQuiet
PROPERTIES
    TrainsBatches
    Finishes
CHECK_DEADLOCK FALSE

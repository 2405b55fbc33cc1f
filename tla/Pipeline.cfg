SPECIFICATION FairSpec
CONSTANTS
    TrainBatchSize = 2
    MiniBatchSize = 1
    NSamples = 1
    NumBatches = 5
    TotalSteps = 5
    LoadedStep = 0
    Stalenesses = {0, 1}
    AgentWorkers = 1
    Backends = {"hccl", "flexfetch"}
    MaxUpdates = 1
INVARIANTS
    TypeOK
    InFlightBounded
    LagBounded
PROPERTIES
    NeverTakenBack
    Finishes
CHECK_DEADLOCK FALSE

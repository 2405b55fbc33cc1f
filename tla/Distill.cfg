\* Up to four batches in two parts, with every failure of the teacher.
CONSTANTS
    MaxBatches = 4
    NWorkers = 2
    None = None
SPECIFICATION FairSpec
INVARIANTS
    TypeOK
    StepsInTurn
    LagBounded
PROPERTY Finishes
CHECK_DEADLOCK FALSE

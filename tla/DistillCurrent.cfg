\* The claim of the schedulers' comments.
CONSTANTS
    MaxBatches = 3
    NWorkers = 1
    None = None
SPECIFICATION Spec
PROPERTY GeneratesCurrent
CHECK_DEADLOCK FALSE

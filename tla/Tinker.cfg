SPECIFICATION Spec
CONSTANTS
    Requests = {r1, r2}
    MaxSamples = 2
    Names = {a}
    Dirs = {a}
    DirOf <- OwnDir
    Samplers = {s}
    UseReference = TRUE
    PartialSaves = FALSE
    MaxActorId = 2
    None = None
    Torn = Torn
    Missing = Missing
SYMMETRY Symmetry
INVARIANTS
    TypeOK
    BoundWeights
CHECK_DEADLOCK FALSE

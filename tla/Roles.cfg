SPECIFICATION FairSpec
CONSTANTS
    Requests = {r1, r2}
    MaxSamples = 2
    SampleRoles = {"rollout", "ref"}
    Strays = {g}
    None = None
INVARIANTS
    ReceivedOrder
    TakesTurns
PROPERTY
    Answered
CHECK_DEADLOCK FALSE

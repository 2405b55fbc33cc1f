SPECIFICATION Spec
CONSTANTS
    u1 = u1
    u2 = u2
    u3 = u3
    advantage = advantage
    actor_train = actor_train
    responses = responses
    scores = scores
    NumShards = 2
    NSamples = 2
    Uuids <- MCUuids
    Batches <- WholePrompts
    Columns <- MCColumns
    PutColumns <- MCPutColumns
    Consumers <- MCConsumers
    Trainer = actor_train
    Requires <- MCRequires
    Produces <- MCProduces
    Grouped <- MCGrouped
    Counts <- MCCounts
    Staleness = 1
    Versions = {1}
    Latest = {0, 1}
    StatusQueries <- NoQuery
    Preemptive = FALSE
    MaxGroups = 5
INVARIANTS
    TypeOK
    AtMostOnce
    RoutingAgrees
    GroupIsOnePrompt
PROPERTY ImplementsQueue
SYMMETRY Symmetry
CHECK_DEADLOCK FALSE

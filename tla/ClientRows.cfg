SPECIFICATION Spec
CONSTANTS
    prompt = prompt
    response = response
    reward = reward
    rollout1 = rollout1
    rollout2 = rollout2
    rollout3 = rollout3
    reward1 = reward1
    s1 = s1
    s2 = s2
    NSamples = 2
    Groups <- InTurnGroups
    Shards <- MCShards
    ShardOf <- InTurnShardOf
    SegmentSize = 8
    SharedColumns = {}
    Columns <- InTurnColumns
    Puts <- InTurnPuts
    Rows <- InTurnRows
    Carries <- InTurnCarries
    Reads <- InTurnReads
    Expanding = {}
INVARIANT RowsMatch
CHECK_DEADLOCK FALSE

SPECIFICATION FairSpec
CONSTANTS
    prompt = prompt
    response = response
    reward = reward
    rollout1 = rollout1
    rollout2 = rollout2
    rollout3 = rollout3
    reward1 = reward1
    s1 = s1
    s2 = s2
    NSamples = 3
    Groups <- MCGroups
    Shards <- MCShards
    ShardOf <- MCShardOf
    SegmentSize = 2
    SharedColumns <- MCShared
    Columns <- MCColumns
    Puts <- MCPuts
    Rows <- MCRows
    Carries <- MCCarries
    Reads <- MCReads
    Expanding = {}
INVARIANTS
    TypeOK
    RowsMatch
    ReportedIsThere
PROPERTY CompleteIsDelivered
CHECK_DEADLOCK FALSE

SPECIFICATION FairSpec
CONSTANTS
    NumShards = 2
    CacheSize = 2
    FirstVersion = 0
    LastVersion = 3
INVARIANTS
    TypeOK
    CacheKept
    WholeUnlessOverlapped
PROPERTIES
    ServesAgain
CHECK_DEADLOCK FALSE

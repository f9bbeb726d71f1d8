\* Up to 100 primaries, two virtual nodes each, on a ring of 225 hashes.
SPECIFICATION RingSpec
CONSTANTS
    HashSize = 225
    MaxNodes = 100
    Shard <- MCShard
    VNode <- MCVNode
    Point <- MCPoint
INVARIANTS
    HistoryIndependent
    IndexInRange
    LookupIsClockwise
PROPERTY MinimalDisruption
CHECK_DEADLOCK FALSE

\* Two primaries that do not fail, one shrink, one key.
SPECIFICATION FairSpec
CONSTANTS
    HashSize = 8
    Shard <- MCShard
    VNode <- MCVNode
    Point <- MCPoint
    PCache = {p1, p2}
    RCache = {}
    NoCache = none
    Key = {1}
    Hash <- MCHash
    Capacity = 1
    MaxPuts = 2
    MaxShrinks = 1
    MaxFails = 0
PROPERTY ShrinkCompletes
CHECK_DEADLOCK FALSE

\* Two primaries, a backup, one failure, two shrinks; three keys, for caches with
\* room for two.
SPECIFICATION FairSpec
CONSTANTS
    HashSize = 8
    Shard <- MCShard
    VNode <- MCVNode
    Point <- MCPoint
    PCache = {p1, p2}
    RCache = {r1}
    NoCache = none
    Key = {1, 2, 3}
    Hash <- MCHash
    Capacity = 2
    MaxPuts = 1
    MaxShrinks = 2
    MaxFails = 1
INVARIANTS
    TypeOK
    
PROPERTY ShrinkEndsOrSticks
CHECK_DEADLOCK FALSE

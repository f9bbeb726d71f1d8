\* Three primaries, one failure, two shrinks, two keys that are put twice.
SPECIFICATION Spec
CONSTANTS
    HashSize = 8
    Shard <- MCShard
    VNode <- MCVNode
    Point <- MCPoint
    PCache = {p1, p2, p3}
    RCache = {}
    NoCache = none
    Key = {1, 2}
    Hash <- MCHash
    Capacity = 2
    MaxPuts = 2
    MaxShrinks = 2
    MaxFails = 1
SYMMETRY MCSymmetry
INVARIANTS
    ViewsAgree
    EraseFinds
    SendsToOwner
    
CHECK_DEADLOCK FALSE

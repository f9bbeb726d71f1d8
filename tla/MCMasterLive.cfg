\* Two primaries and a backup on two descriptors, three connections, one shrink.
SPECIFICATION FairSpec
CONSTANTS
    HashSize = 6
    Shard <- MCShard
    VNode <- MCVNode
    Point <- MCPoint
    PCache = {p1, p2}
    RCache = {r1}
    NoCache = none
    Fd = {f1, f2}
    NoFd = nofd
    MaxStarts = 3
    MaxShrinks = 1
PROPERTY SilentPrimaryLeaves
CHECK_DEADLOCK FALSE

\* Two primaries and a backup, one shrink.
SPECIFICATION Spec
CONSTANTS
    HashSize = 6
    Shard <- MCShard
    VNode <- MCVNode
    Point <- MCPoint
    PCache = {p1, p2}
    RCache = {r1}
    NoCache = none
    Fd = {f1, f2, f3}
    NoFd = nofd
    MaxStarts = 3
    MaxShrinks = 1
PROPERTY ShrinkRemovesAnnounced
CHECK_DEADLOCK FALSE

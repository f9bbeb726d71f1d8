\* Two primaries and a backup that connect three times in all, in any order,
\* with restarts, and one shrink.
SPECIFICATION Spec
CONSTANTS
    HashSize = 6
    Shard <- MCShard
    VNode <- MCVNode
    Point <- MCPoint
    PCache = {p1, p2}
    RCache = {r1}
    NoCache = none
    Fd = {f1, f2, f3}
    NoFd = nofd
    MaxStarts = 3
    MaxShrinks = 1
SYMMETRY MCSymmetry
INVARIANTS
    TypeOK
    RoutingInRange
    RingCovers
    RoutedAreKnown
    PairingIsMutual
    LonePrimariesWait
PROPERTY RoutingIsStable
CHECK_DEADLOCK FALSE

\* Three keys for room for two, and three erasures; the list then holds five
\* nodes at most, and one more while a pair is pushed.
SPECIFICATION Spec
CONSTANTS
    Key = {k1, k2, k3}
    Val = {v1, v2}
    MaxSize = 2
    Node = {n1, n2, n3, n4, n5, n6}
    MaxErases = 3
SYMMETRY MCSymmetry
INVARIANTS
    TypeOK
    IteratorsValid
    GrowthIsBounded
PROPERTY ImplementsLossyMap

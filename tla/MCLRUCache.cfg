\* Three keys for a capacity of two; as many addresses as leave a choice
\* between reusing a freed node and not; two threads.
SPECIFICATION Spec
CONSTANTS
    Key = {k1, k2, k3}
    Val = {v1, v2}
    Capacity = 2
    Addr = {a1, a2, a3, a4}
    head = head
    tail = tail
    Thread = {t1, t2}
    Idle = idle
SYMMETRY MCSymmetry
INVARIANTS
    TypeOK
    ListMatchesMap
    LateReadIsSafe
PROPERTY ImplementsLRU

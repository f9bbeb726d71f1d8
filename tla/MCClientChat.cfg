\* Two connections, two workers; room for one of two keys, so that every key
\* that migrates in evicts another.
SPECIFICATION FairSpec
CONSTANTS
    Key = {k1, k2}
    Val = {v1}
    Asked = {k1}
    Capacity = 1
    Client = {c1, c2}
    Listener = listener
    Absent = absent
    Garbage = garbage
    Worker = {w1, w2}
    Asleep = asleep
    Awake = awake
    After = after
INVARIANTS
    TypeOK
    ReplyIsOwn
    ReplyIsCurrent
PROPERTY RequestIsAnswered
CHECK_DEADLOCK FALSE

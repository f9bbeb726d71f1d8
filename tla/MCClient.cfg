\* Two keys, two primaries, and two backups at the crossings of their addresses;
\* a server is given up with two keys unanswered.
SPECIFICATION Spec
CONSTANTS
    Key = {k1, k2}
    h1 = h1
    h2 = h2
    q1 = q1
    q2 = q2
    Host = {h1, h2}
    Port = {q1, q2}
    Server <- Four
    Named <- Two
    Master = master
    LOST_MAX_NUM = 1
    WAITING_TIME = 1
    MaxConns = 2
SYMMETRY Symmetry
INVARIANTS
    TypeOK
    NoKeyForgotten
    ResendIsPending
    EntryIsOutstanding
    AnswersFindTimer
CHECK_DEADLOCK FALSE

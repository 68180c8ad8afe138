SPECIFICATION Spec
CONSTANTS
    Mails = {m1}
    TooBig = {}
    Poison = {}
    Partitions = {p1, p2}
    Workers = {w1, w2}
    Attempts = 2
    MaxSends = 2
    MaxFaults = 1
    NULL = NULL
INVARIANTS
    NeverShared
CHECK_DEADLOCK FALSE

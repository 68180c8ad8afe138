SPECIFICATION FairSpec
CONSTANTS
    Mails = {m1, m2}
    TooBig = {}
    Poison = {m1}
    Partitions = {p1}
    Workers = {w1, w2}
    Attempts = 2
    MaxSends = 1
    MaxFaults = 0
    NULL = NULL
PROPERTIES
    AcceptedIsDelivered
CHECK_DEADLOCK FALSE

SPECIFICATION FairSpec
CONSTANTS
    Mails = {m1, m2, m3}
    TooBig = {}
    Poison = {m1}
    Partitions = {p1, p2}
    Workers = {w1}
    Attempts = 2
    MaxSends = 1
    MaxFaults = 1
    NULL = NULL
PROPERTIES
    DeliveredUnlessBlocked
CHECK_DEADLOCK FALSE

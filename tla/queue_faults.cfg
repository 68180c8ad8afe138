SPECIFICATION Spec
CONSTANTS
    Mails = {m1}
    TooBig = {}
    Poison = {}
    Partitions = {p1, p2}
    Workers = {w1, w2}
    Attempts = 2
    MaxSends = 3
    MaxFaults = 3
    NULL = NULL
INVARIANTS
    TypeOK
    AckedIsProcessed
    EventsDeliverOnce
    EventsHaveTheirMail
    AcceptedIsKept
SYMMETRY McSymmetry
CHECK_DEADLOCK FALSE

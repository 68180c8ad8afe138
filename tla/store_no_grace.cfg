SPECIFICATION Spec
CONSTANTS
    w1 = w1  w2 = w2  g1 = g1  g2 = g2
    m1 = m1  m2 = m2  m3 = m3  b1 = b1  b2 = b2  c1 = c1  c2 = c2  x1 = x1  x2 = x2
    Workers = {w1, w2}
    Sweepers = {g1}
    Msgs = {m1, m2}
    Blobs = {b1, b2}
    Chunks = {c1, c2}
    Mailboxes = {x1}
    AttachmentsOf <- McCross
    ChunksOf <- McChunksOf
    SizeOf <- McSizeOf
    Reach <- McReach
    Grace = 0
    TxnBound = 1
    Batch = 2
    MaxFaults = 0
    CrashAfterS3 = FALSE
    NULL = NULL
INVARIANTS
    EveryCopyIsServed

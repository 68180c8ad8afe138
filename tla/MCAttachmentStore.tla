-------------------------- MODULE MCAttachmentStore ------------------------
(* Instances of AttachmentStore for TLC.  Blob b1 lists chunk c1 twice, b2    *)
(* shares c1 with it.                                                        *)
EXTENDS AttachmentStore, TLC

CONSTANTS w1, w2, g1, g2, m1, m2, m3, b1, b2, c1, c2, x1, x2

McChunksOf == [b \in Blobs |-> IF b = b1 THEN <<c1, c1>> ELSE <<c1, c2>>]
McSizeOf   == [m \in Msgs |-> IF m = m1 THEN 1 ELSE 2]
McReach    == [m \in Msgs |-> IF m = m1 THEN {x1} ELSE Mailboxes]

\* Every message carries the same blob.
McSame  == [m \in Msgs |-> <<b1>>]
\* Two messages with the two blobs that share a chunk.
McCross == [m \in Msgs |-> IF m = m1 THEN <<b1>> ELSE <<b2>>]
\* The second message carries both blobs: while it holds the shared chunk's
\* lock it waits for b1, so it can deadlock with a sweep that is reclaiming b1.
McPair  == [m \in Msgs |-> IF m = m1 THEN <<b1>> ELSE <<b2, b1>>]

\* Workers are alike, and so are m2 and m3 in McSame and McCross.
McSymmetry == Permutations(Workers) \cup Permutations({m2, m3})
=============================================================================

---------------------- MODULE AttachmentObjects_proofs ----------------------
(***************************************************************************)
(* The timed half of AttachmentStore's safety: that a blob row goes only   *)
(* after a whole grace period, that every chunk row a blob row names keeps *)
(* its S3 object, hence that every copy can be served, and hence that the  *)
(* store implements Inbox.  Four layers over IInv, each inductive once     *)
(* the layers before it are known.                                         *)
(***************************************************************************)
EXTENDS AttachmentStore_proofs

-----------------------------------------------------------------------------
(* What a step may touch.                                                  *)

\* A worker's steps other than a commit leave every row but the replay guard's.
LEMMA WorkerFrame ==
    ASSUME IInv, NEW w \in Workers, Work(w) \/ Abort(w) \/ WorkerVictim(w)
    PROVE  /\ gc' = gc /\ tx' = [tx EXCEPT ![w] = tx'[w]]
           /\ \A v \in Workers : v # w => tx'[v] = tx[v]
           /\ ~Commit(w) => UNCHANGED <<message, attachment, copy, blob, refcount, idle,
                                        blobChunk, chunk, chunkRef, used>>
           /\ ~Upload(w) => object' = object
  <1>0. tx \in [Workers -> TxType]
    BY DEF IInv
  <1>1. ASSUME NEW m \in Msgs, Claim(w, m)
        PROVE  /\ UNCHANGED <<tables, gc, object>>
               /\ \E t : tx' = [tx EXCEPT ![w] = t]
    BY <1>1 DEF Claim
  <1>2. CASE ReadKnown(w) \/ ReadChunks(w) \/ InsertChunk(w) \/ InsertBlob(w) \/ Resolve(w) \/ Deliver(w)
    <2>1. UNCHANGED <<tables, gc, object>>
      BY <1>2 DEF ReadKnown, ReadChunks, InsertChunk, InsertBlob, Resolve, Deliver, InTx
    <2>2. tx' = [tx EXCEPT ![w] = tx'[w]]
      BY <1>2, ReadKnownOK, ReadChunksOK, InsertChunkOK, InsertBlobOK, ResolveOK, DeliverOK
    <2> QED
      BY <1>0, <2>1, <2>2 DEF tables
  <1>3. CASE InsertMap(w) \/ Link(w)
    <2>1. UNCHANGED <<tables, gc, object>>
      BY <1>3 DEF InsertMap, Link, InTx
    <2>2. tx' = [tx EXCEPT ![w] = tx'[w]]
      BY <1>3, InsertMapOK, LinkOK
    <2> QED
      BY <1>0, <2>1, <2>2 DEF tables
  <1>4. CASE Upload(w)
    <2>1. UNCHANGED <<tables, gc>>
      BY <1>4 DEF Upload, InTx
    <2>2. tx' = [tx EXCEPT ![w] = tx'[w]]
      BY <1>4, UploadOK
    <2> QED
      BY <1>0, <1>4, <2>1, <2>2 DEF tables
  <1>5. CASE Commit(w) \/ Drop(w) \/ Abort(w) \/ WorkerVictim(w)
    <2>1. RolledBack(w) /\ gc' = gc /\ object' = object
      BY <1>5 DEF Commit, Drop, Abort, WorkerVictim
    <2>2. ~Commit(w) => UNCHANGED <<message, attachment, copy, blob, refcount, idle,
                                    blobChunk, chunk, chunkRef, used>>
      BY <1>5 DEF Drop, Abort, WorkerVictim, tables
    <2> QED
      BY <1>0, <2>1, <2>2 DEF RolledBack
  <1> QED
    BY <1>0, <1>1, <1>2, <1>3, <1>4, <1>5 DEF Work, tables

\* A sweep's steps leave every transaction, and take locks one phase at a time.
LEMMA SweepFrame ==
    ASSUME IInv, NEW g \in Sweepers, Sweep(g) \/ CrashSweep(g) \/ SweepVictim(g)
    PROVE  /\ tx' = tx /\ gc' \in [Sweepers -> SweepType]
           /\ \A h \in Sweepers : h # g => gc'[h] = gc[h]
           /\ LockBlobs(g) \/ gc'[g].blobs \subseteq gc[g].blobs
           /\ LockChunks(g) \/ gc'[g].chunks \subseteq gc[g].chunks
           /\ gc'[g].pc = "p2_lock" => SelectBlobs(g)
           /\ gc'[g].pc = "p3_commit" => DeleteObjects(g)
           /\ gc[g].pc = "p3_commit" => CommitChunks(g) \/ CrashSweep(g)
  <1> USE DEF tables
  <1>0. gc \in [Sweepers -> SweepType]
    BY DEF IInv
  <1>1. gc' \in [Sweepers -> SweepType]
    BY SweepInv, SweepFailsInv DEF IInv
  <1> USE <1>0, <1>1 DEF Sweeping, Closed, NoSweep, SweepType
  <1>2. CASE BeginSweep(g)
    BY <1>2 DEF BeginSweep
  <1>3. CASE LockOrphans(g)
    <2>1. PICK B : /\ gc[g].pc = "p1"
                   /\ tx' = tx
                   /\ gc' = [gc EXCEPT ![g] = [gc[g] EXCEPT !.age = Open(g), !.msgs = B,
                                !.pc = IF B = {} THEN "p2" ELSE "p1_delete"]]
      BY <1>3 DEF LockOrphans, InSweep
    <2> QED
      BY <2>1
  <1>4. CASE DeleteOrphans(g)
    BY <1>4 DEF DeleteOrphans, InSweep
  <1>5. CASE CommitOrphans(g)
    BY <1>5 DEF CommitOrphans, InSweep
  <1>6. CASE SelectBlobs(g)
    BY <1>6 DEF SelectBlobs, InSweep
  <1>7. CASE LockBlobs(g)
    <2>1. PICK B : /\ gc[g].pc = "p2_lock"
                   /\ tx' = tx
                   /\ gc' = [gc EXCEPT ![g] = [gc[g] EXCEPT !.cand = {}, !.blobs = B,
                                !.pc = IF B = {} THEN "p3" ELSE "p2_lower"]]
      BY <1>7 DEF LockBlobs, InSweep
    <2> QED
      BY <1>7, <2>1
  <1>8. CASE LowerChunks(g)
    BY <1>8 DEF LowerChunks, InSweep
  <1>9. CASE DeleteBlobs(g)
    <2>1. /\ gc[g].pc = "p2_delete" /\ tx' = tx
          /\ \/ gc' = [gc EXCEPT ![g] = [NoSweep EXCEPT !.pc = "p3"]]
             \/ gc' = [gc EXCEPT ![g] = [NoSweep EXCEPT !.pc = "raised"]]
             \/ gc' = [gc EXCEPT ![g] = [gc[g] EXCEPT !.pc = "p2_commit"]]
      BY <1>9 DEF DeleteBlobs, InSweep
    <2> QED
      BY <2>1
  <1>10. CASE CommitBlobs(g)
    BY <1>10 DEF CommitBlobs, InSweep
  <1>11. CASE LockChunks(g)
    <2>1. gc[g].pc = "p3" /\ tx' = tx
      BY <1>11 DEF LockChunks, InSweep
    <2>2. PICK s : gc' = [gc EXCEPT ![g] = s] /\ s.blobs \subseteq gc[g].blobs /\ s.pc \in {"idle", "p3_delete"}
      <3>1. PICK B : gc' = [gc EXCEPT ![g] =
                        IF B = {} THEN NoSweep
                        ELSE [gc[g] EXCEPT !.age = Open(g), !.chunks = B, !.pc = "p3_delete"]]
        BY <1>11 DEF LockChunks
      <3>2. CASE B = {}
        BY <3>1, <3>2
      <3>3. CASE B # {}
        BY <3>1, <3>3
      <3> QED
        BY <3>2, <3>3
    <2>3. gc'[g] = s /\ \A h \in Sweepers : h # g => gc'[h] = gc[h]
      BY <2>2
    <2> QED
      BY <1>11, <2>1, <2>2, <2>3
  <1>12. CASE DeleteChunks(g)
    <2> DEFINE gone == {c \in gc[g].chunks \cap chunk : chunkRef[c] = 0}
    <2>1. gc[g].pc = "p3_delete" /\ tx' = tx
      BY <1>12 DEF DeleteChunks, InSweep
    <2>2. PICK s : /\ gc' = [gc EXCEPT ![g] = s]
                   /\ s \in {[NoSweep EXCEPT !.pc = "raised"], NoSweep,
                             [gc[g] EXCEPT !.chunks = gone, !.pc = "p3_s3"]}
      BY <1>12 DEF DeleteChunks
    <2>3. /\ s.blobs \subseteq gc[g].blobs /\ s.chunks \subseteq gc[g].chunks
          /\ s.pc \in {"raised", "idle", "p3_s3"}
      <3>1. CASE s = [NoSweep EXCEPT !.pc = "raised"]
        BY <3>1
      <3>2. CASE s = NoSweep
        BY <3>2
      <3>3. CASE s = [gc[g] EXCEPT !.chunks = gone, !.pc = "p3_s3"]
        BY <3>3
      <3> QED
        BY <2>2, <3>1, <3>2, <3>3
    <2>4. gc'[g] = s /\ \A h \in Sweepers : h # g => gc'[h] = gc[h]
      BY <2>2
    <2> QED
      BY <2>1, <2>3, <2>4
  <1>13. CASE DeleteObjects(g)
    BY <1>13 DEF DeleteObjects, InSweep
  <1>14. CASE CommitChunks(g)
    BY <1>14 DEF CommitChunks, InSweep
  <1>15. CASE CrashSweep(g)
    BY <1>15 DEF CrashSweep
  <1>16. CASE SweepVictim(g)
    <2>1. gc[g].pc # "p3_commit"
      <3>1. WaitsOn(g) # {}
        BY <1>16 DEF SweepVictim, Deadlocked
      <3>2. WaitsOn(g) = SweepWaitsOn(g)
        BY StoreConstants DEF WaitsOn
      <3> QED
        BY <3>1, <3>2 DEF SweepWaitsOn
    <2> QED
      BY <1>16, <2>1 DEF SweepVictim
  <1> QED
    BY <1>2, <1>3, <1>4, <1>5, <1>6, <1>7, <1>8, <1>9, <1>10, <1>11, <1>12, <1>13, <1>14,
       <1>15, <1>16 DEF Sweep
-----------------------------------------------------------------------------
(* The grace period.                                                       *)

\* A sweep that holds a blob row found its clock past the grace period, measured
\* from the start of the sweep's transaction.
Overdue ==
    \A g \in Sweepers :
        /\ gc[g].pc = "p2_lock" => gc[g].age \in Nat
        /\ \A b \in gc[g].blobs : idle[b] # NULL /\ idle[b] > Grace

\* Nobody else touches the clock of a blob row that a sweep has locked.
LEMMA OverdueStep ==
    ASSUME IInv, Overdue, [Next]_vars
    PROVE  Overdue'
  <1> USE StoreConstants
  <1>0. /\ idle \in [Blobs -> Nat \cup {NULL}] /\ gc \in [Sweepers -> SweepType]
        /\ \A g \in Sweepers : gc[g].blobs \subseteq Blobs /\ gc[g].blobs \subseteq blob
    BY DEF IInv, Stored, RowTypes, Reclaiming, SweepType
  <1>1. ASSUME NEW w \in Workers, Work(w) \/ Abort(w) \/ WorkerVictim(w)
        PROVE  Overdue'
    <2>1. CASE Commit(w)
      <3>1. /\ gc' = gc
            /\ idle' = [b \in Blobs |-> DeliveredClock(tx[w], b)]
        BY <2>1 DEF Commit
      <3>2. ASSUME NEW g \in Sweepers, NEW b \in gc[g].blobs
            PROVE  idle'[b] = idle[b]
        <4>1. b \notin tx[w].link /\ b \notin tx[w].newBlob
          BY <1>0 DEF IInv, Delivery, Alone
        <4> QED
          BY <1>0, <3>1, <4>1 DEF DeliveredClock
      <3> QED
        BY <3>1, <3>2 DEF Overdue
    <2>2. CASE ~Commit(w)
      BY <1>1, <2>2, WorkerFrame DEF Overdue
    <2> QED
      BY <2>1, <2>2
  <1>2. ASSUME NEW x \in Mailboxes, NEW m \in Msgs, DeleteCopy(x, m)
        PROVE  Overdue'
    <2>1. /\ gc' = gc
          /\ \A g \in Sweepers : gc[g].blobs \cap AttBlobs(m) = {}
          /\ idle' = [b \in Blobs |-> IF b \in AttBlobs(m)
                                      THEN IF refcount[b] - 1 <= 0 THEN 0 ELSE NULL
                                      ELSE idle[b]]
      BY <1>2 DEF DeleteCopy
    <2> QED
      BY <1>0, <2>1 DEF Overdue
  <1>3. ASSUME NEW g \in Sweepers, Sweep(g) \/ CrashSweep(g) \/ SweepVictim(g)
        PROVE  Overdue'
    <2>1. CASE SelectBlobs(g)
      <3>1. idle' = idle /\ gc'[g].age = Open(g) /\ gc'[g].blobs = gc[g].blobs
        BY <1>0, <2>1 DEF SelectBlobs, Sweeping, tables, SweepType
      <3> QED
        BY <1>3, <3>1, SweepFrame, OpenType DEF Overdue
    <2>2. CASE LockBlobs(g)
      <3>1. PICK B : /\ \A b \in B : b \in blob /\ Expired(b, gc[g].age)
                     /\ Sweeping(g, [gc[g] EXCEPT !.cand = {}, !.blobs = B,
                                                  !.pc = IF B = {} THEN "p3" ELSE "p2_lower"])
        BY <2>2 DEF LockBlobs, Batches, StillGarbage
      <3>2. gc[g].age \in Nat
        BY <2>2 DEF LockBlobs, InSweep, Overdue
      <3>3. /\ idle' = idle /\ gc'[g].blobs = B /\ gc'[g].pc # "p2_lock"
            /\ \A h \in Sweepers : h # g => gc'[h] = gc[h]
        BY <1>0, <3>1 DEF Sweeping, tables, SweepType
      <3>4. \A b \in B : b \in Blobs
        BY <3>1 DEF IInv, Stored, RowTypes
      <3>5. \A b \in B : idle[b] # NULL /\ idle[b] > Grace
        BY <1>0, <3>1, <3>2, <3>4 DEF Expired
      <3> QED
        BY <3>3, <3>5 DEF Overdue
    <2>3. CASE CommitBlobs(g)
      <3>1. /\ idle' = [b \in Blobs |-> IF b \in gc[g].blobs THEN NULL ELSE idle[b]]
            /\ gc'[g].blobs = {} /\ gc'[g].pc = "p2"
            /\ \A h \in Sweepers : h # g => gc'[h] = gc[h]
        BY <1>0, <2>3 DEF CommitBlobs, Closed, NoSweep
      <3>2. \A h \in Sweepers : h # g => gc[h].blobs \cap gc[g].blobs = {}
        BY DEF IInv, Reclaiming
      <3> QED
        BY <1>0, <3>1, <3>2 DEF Overdue
    <2>4. CASE ~SelectBlobs(g) /\ ~LockBlobs(g) /\ ~CommitBlobs(g)
      <3>1. idle' = idle
        BY <1>3, <2>4 DEF Sweep, CrashSweep, SweepVictim, Sweeping, tables, BeginSweep,
           LockOrphans, DeleteOrphans, CommitOrphans, LowerChunks, DeleteBlobs, LockChunks,
           DeleteChunks, DeleteObjects, CommitChunks
      <3> QED
        BY <1>3, <2>4, <3>1, SweepFrame DEF Overdue
    <2> QED
      BY <2>1, <2>2, <2>3, <2>4
  <1>4. CASE Tick
    <2>1. ASSUME NEW g \in Sweepers
          PROVE  /\ gc'[g].pc = gc[g].pc /\ gc'[g].blobs = gc[g].blobs
                 /\ gc[g].age \in Nat => gc'[g].age \in Nat
      BY <1>0, <1>4 DEF Tick, SweepType
    <2>2. ASSUME NEW b \in Blobs, idle[b] # NULL, idle[b] > Grace
          PROVE  idle'[b] # NULL /\ idle'[b] > Grace
      BY <1>0, <1>4, <2>2 DEF Tick, Older, Horizon
    <2> QED
      BY <1>0, <2>1, <2>2 DEF Overdue
  <1>5. CASE UNCHANGED vars
    BY <1>5 DEF vars, tables, Overdue
  <1> QED
    BY <1>1, <1>2, <1>3, <1>4, <1>5 DEF Next

\* A blob row is deleted only by the commit of a sweep that holds it.
LEMMA BlobGone ==
    ASSUME IInv, Next
    PROVE  \A b \in blob \ blob' : \E g \in Sweepers : CommitBlobs(g) /\ b \in gc[g].blobs
  <1>1. ASSUME NEW w \in Workers, Work(w) \/ Abort(w) \/ WorkerVictim(w)
        PROVE  blob \subseteq blob'
    BY <1>1, WorkerFrame DEF Commit
  <1>2. ASSUME NEW x \in Mailboxes, NEW m \in Msgs, DeleteCopy(x, m)
        PROVE  blob' = blob
    BY <1>2 DEF DeleteCopy
  <1>3. ASSUME NEW g \in Sweepers, Sweep(g) \/ CrashSweep(g) \/ SweepVictim(g), ~CommitBlobs(g)
        PROVE  blob' = blob
    BY <1>3 DEF Sweep, CrashSweep, SweepVictim, Sweeping, tables, BeginSweep, LockOrphans,
       DeleteOrphans, CommitOrphans, SelectBlobs, LockBlobs, LowerChunks, DeleteBlobs,
       LockChunks, DeleteChunks, DeleteObjects, CommitChunks
  <1>4. ASSUME NEW g \in Sweepers, CommitBlobs(g)
        PROVE  blob' = blob \ gc[g].blobs
    BY <1>4 DEF CommitBlobs
  <1>5. CASE Tick
    BY <1>5 DEF Tick
  <1> QED
    BY <1>1, <1>2, <1>3, <1>4, <1>5 DEF Next

\* The grace period is measured on the row the sweep holds, for every Grace.
THEOREM OverdueInvariance == Spec => []Overdue
  <1>1. Init => Overdue
    BY DEF Init, Overdue, NoSweep
  <1>2. IInv /\ Overdue /\ [Next]_vars => Overdue'
    BY OverdueStep
  <1> QED
    BY <1>1, <1>2, Invariance, PTL DEF Spec

\* gc.py GRACE: a blob row goes only when the blob has had no copy for longer than
\* the grace period, whatever happened between the sweep's SELECT and its lock.
THEOREM GraceServed == Spec => GraceIsServed
  <1>1. IInv /\ Overdue /\ [Next]_vars => [\A b \in blob \ blob' : idle[b] # NULL /\ idle[b] > Grace]_vars
    BY BlobGone DEF Overdue
  <1> QED
    BY <1>1, Invariance, OverdueInvariance, PTL DEF Spec, GraceIsServed
-----------------------------------------------------------------------------
(* Who owns a chunk row.                                                   *)

\* A chunk row a delivery has created: a map row of the delivery names it, or the
\* attachment being stored still does.
Claimed(t, c) ==
    \/ \E r \in t.newRow : ChunkAt(r) = c
    \/ /\ t.pc \in {"insert_chunks", "insert_blob", "insert_map", "link"}
       /\ \E i \in DOMAIN ChunksOf[AttachmentsOf[t.msg][t.next]] :
            ChunksOf[AttachmentsOf[t.msg][t.next]][i] = c

\* The unique key of chunk: a row created by an open delivery is nobody else's.
Creates(w, t) ==
    /\ t.newChunk \cap chunk = {}
    /\ \A v \in Workers : v # w => t.newChunk \cap tx[v].newChunk = {}
    /\ \A c \in t.newChunk : Claimed(t, c)

\* The row locks of phase 3.
Locks(g, s) ==
    /\ s.chunks \subseteq chunk
    /\ \A h \in Sweepers : h # g => s.chunks \cap gc[h].chunks = {}

Owned ==
    /\ \A w \in Workers : Creates(w, tx[w])
    /\ \A g \in Sweepers : Locks(g, gc[g])

\* A delivery without chunk rows of its own owns nothing.
LEMMA CreatesNothing ==
    ASSUME NEW w \in Workers, NEW t, t.newChunk = {}
    PROVE  Creates(w, t)
  BY DEF Creates

\* What is left to show of a worker's step: the chunk rows that its own transaction
\* holds after it.
LEMMA CreatesStep ==
    ASSUME IInv, Owned, NEW w \in Workers,
           Work(w) \/ Abort(w) \/ WorkerVictim(w), ~Commit(w), Creates(w, tx'[w])
    PROVE  Owned'
  <1>1. /\ gc' = gc /\ chunk' = chunk
        /\ \A v \in Workers : v # w => tx'[v] = tx[v]
    BY WorkerFrame
  <1>2. ASSUME NEW v \in Workers PROVE Creates(v, tx[v])'
    <2>1. CASE v = w
      BY <1>1, <2>1 DEF Creates, Claimed, ChunkAt
    <2>2. CASE v # w
      BY <1>1, <2>2 DEF Creates, Claimed, ChunkAt, Owned
    <2> QED
      BY <2>1, <2>2
  <1>3. \A g \in Sweepers : Locks(g, gc[g])'
    BY <1>1 DEF Locks, Owned
  <1> QED
    BY <1>2, <1>3 DEF Owned

\* InsertChunk waits for another delivery that has inserted the chunk, and skips a
\* committed row, so the row it creates is its own.
LEMMA InsertChunkCreates ==
    ASSUME IInv, Owned, NEW w \in Workers, InsertChunk(w)
    PROVE  Creates(w, tx'[w])
  <1>0. tx[w].pc = "insert_chunks" /\ tx[w].pc \in AttachmentPcs /\ WorkerWaitsOn(w) = {}
    BY DEF InsertChunk, InTx, AttachmentPcs
  <1>1. PICK c \in FirstOf(Blob(w), tx[w].missing) :
            tx' = [tx EXCEPT ![w].missing = @ \ {c},
                             ![w].newChunk = @ \cup ({c} \ chunk),
                             ![w].pc = AfterChunkRow(tx[w].missing \ {c})]
    BY DEF InsertChunk
  <1>2. \A v \in Workers : v # w => c \notin tx[v].newChunk
    BY <1>0, <1>1 DEF WorkerWaitsOn
  <1>3. \E i \in DOMAIN ChunksOf[Blob(w)] : ChunksOf[Blob(w)][i] = c
    BY <1>1 DEF FirstOf
  <1>4. AfterChunkRow(tx[w].missing \ {c}) \in {"insert_blob", "insert_chunks"}
    BY DEF AfterChunkRow
  <1>5. /\ tx'[w].newChunk = tx[w].newChunk \cup ({c} \ chunk)
        /\ tx'[w].pc \in {"insert_blob", "insert_chunks"}
        /\ tx'[w].msg = tx[w].msg /\ tx'[w].next = tx[w].next /\ tx'[w].newRow = tx[w].newRow
    BY <1>1, <1>4 DEF IInv, TxType
  <1>6. Creates(w, tx[w])
    BY DEF Owned
  <1>7. ASSUME NEW d \in tx'[w].newChunk PROVE Claimed(tx'[w], d)
    <2>1. CASE d = c
      BY <1>3, <1>5, <2>1 DEF Claimed, Blob
    <2>2. CASE d # c
      BY <1>0, <1>5, <1>6, <2>2 DEF Creates, Claimed
    <2> QED
      BY <2>1, <2>2
  <1> QED
    BY <1>2, <1>5, <1>6, <1>7 DEF Creates

\* An attachment is finished by Link.  If its blob row turns out to be committed,
\* all its chunk rows are, and none of them is this delivery's.
LEMMA LinkCreates ==
    ASSUME IInv, Owned, NEW w \in Workers, Link(w)
    PROVE  Creates(w, tx'[w])
  <1> DEFINE t == tx[w]
             b == Blob(w)
  <1>0. t.pc = "link" /\ t.pc \in AttachmentPcs
    BY DEF Link, InTx, AttachmentPcs
  <1>1. CASE ~BlobExists(w, b)
    <2>1. tx'[w].newChunk = {}
      BY <1>1 DEF Link, RolledBack, IInv, NoTx
    <2> QED
      BY <2>1, CreatesNothing
  <1>2. CASE BlobExists(w, b)
    <2>1. /\ tx'[w].newChunk = t.newChunk /\ tx'[w].newRow = t.newRow
      BY <1>2 DEF Link, IInv, TxType
    <2>2. Creates(w, t) /\ Mapped(t) /\ b = AttachmentsOf[t.msg][t.next]
      BY <1>0, AtAttachment DEF Owned, IInv, Delivery
    <2>3. ASSUME NEW c \in t.newChunk, NEW i \in DOMAIN ChunksOf[b], ChunksOf[b][i] = c
          PROVE  \E r \in t.newRow : ChunkAt(r) = c
      <3>1. CASE b \in blob
        <4>1. <<b, i>> \in blobChunk
          BY <3>1 DEF IInv, Stored, Referenced
        <4>2. ChunkAt(<<b, i>>) \in chunk
          BY <4>1 DEF IInv, Stored, Referenced
        <4> QED
          BY <2>2, <2>3, <4>2 DEF ChunkAt, Creates
      <3>2. CASE b \in t.newBlob
        <4>1. <<b, i>> \in t.newRow
          BY <1>0, <2>2, <3>2 DEF Mapped
        <4> QED
          BY <2>3, <4>1 DEF ChunkAt
      <3> QED
        BY <1>2, <3>1, <3>2 DEF BlobExists
    <2>4. \A c \in t.newChunk : \E r \in t.newRow : ChunkAt(r) = c
      BY <2>2, <2>3 DEF Creates, Claimed
    <2> QED
      BY <2>1, <2>2, <2>4 DEF Creates, Claimed
  <1> QED
    BY <1>1, <1>2

\* The other steps create no chunk row, and drop no claim on one.
LEMMA OtherCreates ==
    ASSUME IInv, Owned, NEW w \in Workers, Work(w) \/ Abort(w) \/ WorkerVictim(w),
           ~Commit(w), ~InsertChunk(w), ~Link(w)
    PROVE  Creates(w, tx'[w])
  <1> DEFINE t == tx[w]
             u == tx'[w]
  <1>0. t \in TxType /\ tx \in [Workers -> TxType] /\ Creates(w, t)
    BY DEF IInv, Owned
  <1>1. CASE u.newChunk = {}
    BY <1>1, CreatesNothing
  <1>2. ASSUME u.newChunk = t.newChunk, t.newRow \subseteq u.newRow,
               \/ t.pc \notin {"insert_chunks", "insert_blob", "insert_map", "link"}
               \/ /\ u.pc \in {"insert_chunks", "insert_blob", "insert_map", "link"}
                  /\ u.msg = t.msg /\ u.next = t.next
        PROVE  Creates(w, u)
    BY <1>0, <1>2 DEF Creates, Claimed
  <1>3. ASSUME NEW m \in Msgs, Claim(w, m) PROVE u.newChunk = {}
    BY <1>0, <1>3 DEF Claim, NoTx
  <1>4. CASE RolledBack(w)
    BY <1>0, <1>1, <1>4 DEF RolledBack, NoTx
  <1>5. CASE ReadKnown(w)
    BY <1>0, <1>2, <1>5 DEF ReadKnown, InTx, TxType
  <1>6. CASE ReadChunks(w)
    BY <1>0, <1>2, <1>6 DEF ReadChunks, InTx, TxType
  <1>7. CASE Upload(w)
    BY <1>0, <1>2, <1>7 DEF Upload, InTx, TxType
  <1>8. CASE InsertBlob(w)
    BY <1>0, <1>2, <1>8 DEF InsertBlob, InTx, TxType
  <1>9. CASE InsertMap(w) /\ ~RolledBack(w)
    <2>1. AfterMap(Blob(w), t.seq) \in {"link", "insert_map"}
      BY DEF AfterMap
    <2>2. /\ t.pc = "insert_map" /\ u.pc = AfterMap(Blob(w), t.seq)
          /\ u.newChunk = t.newChunk /\ t.newRow \subseteq u.newRow
          /\ u.msg = t.msg /\ u.next = t.next
      BY <1>0, <1>9 DEF InsertMap, InTx, TxType
    <2> QED
      BY <1>2, <2>1, <2>2
  <1>10. CASE Resolve(w)
    BY <1>0, <1>2, <1>10 DEF Resolve, InTx, TxType
  <1>11. CASE Deliver(w)
    BY <1>0, <1>2, <1>11 DEF Deliver, InTx, TxType
  <1> QED
    BY <1>1, <1>3, <1>4, <1>5, <1>6, <1>7, <1>8, <1>9, <1>10, <1>11
    DEF Work, Drop, Abort, WorkerVictim
\* A commit hands its chunk rows over to the table, where no sweep had them locked.
LEMMA CommitOwned == ASSUME IInv, Owned, NEW w \in Workers, Commit(w) PROVE Owned'
  <1>1. /\ chunk' = chunk \cup tx[w].newChunk /\ gc' = gc
        /\ tx'[w] = NoTx /\ \A v \in Workers : v # w => tx'[v] = tx[v]
    BY DEF Commit, RolledBack, IInv
  <1>2. ASSUME NEW v \in Workers PROVE Creates(v, tx[v])'
    <2>1. CASE v = w
      BY <1>1, <2>1 DEF Creates, NoTx
    <2>2. CASE v # w
      <3>1. Creates(v, tx[v]) /\ tx'[v] = tx[v]
        BY <1>1, <2>2 DEF Owned
      <3>2. tx'[v].newChunk \cap chunk' = {}
        BY <1>1, <2>2, <3>1 DEF Creates
      <3>3. \A u \in Workers : u # v => tx'[v].newChunk \cap tx'[u].newChunk = {}
        BY <1>1, <3>1 DEF Creates, NoTx
      <3> QED
        BY <3>1, <3>2, <3>3 DEF Creates, Claimed, ChunkAt
    <2> QED
      BY <2>1, <2>2
  <1>3. \A g \in Sweepers : Locks(g, gc[g])'
    BY <1>1 DEF Locks, Owned
  <1> QED
    BY <1>2, <1>3 DEF Owned

\* A sweep locks committed rows nobody has locked, and deletes only its own.
LEMMA SweepOwned ==
    ASSUME IInv, Owned, NEW g \in Sweepers, Sweep(g) \/ CrashSweep(g) \/ SweepVictim(g)
    PROVE  Owned'
  <1>0. /\ tx' = tx /\ gc \in [Sweepers -> SweepType]
        /\ \A h \in Sweepers : h # g => gc'[h] = gc[h]
    BY SweepFrame DEF IInv
  <1>1. chunk' = chunk \/ (CommitChunks(g) /\ chunk' = chunk \ gc[g].chunks)
    BY DEF Sweep, CrashSweep, SweepVictim, Sweeping, tables, BeginSweep, LockOrphans,
       DeleteOrphans, CommitOrphans, SelectBlobs, LockBlobs, LowerChunks, DeleteBlobs,
       CommitBlobs, LockChunks, DeleteChunks, DeleteObjects, CommitChunks
  <1>2. chunk' \subseteq chunk
    BY <1>1
  <1>3. ASSUME NEW v \in Workers PROVE Creates(v, tx[v])'
    BY <1>0, <1>2 DEF Owned, Creates, Claimed, ChunkAt
  <1>4. CASE LockChunks(g)
    <2>1. PICK s : /\ gc' = [gc EXCEPT ![g] = s]
                   /\ \A c \in s.chunks : c \in chunk /\ ~ChunkLocked(c)
      <3>1. PICK B \in SUBSET {c \in chunk : chunkRef[c] = 0 /\ ~ChunkLocked(c)} :
                Sweeping(g, IF B = {} THEN NoSweep
                            ELSE [gc[g] EXCEPT !.age = Open(g), !.chunks = B, !.pc = "p3_delete"])
        BY <1>4 DEF LockChunks, Batches
      <3>2. CASE B = {}
        <4>1. gc' = [gc EXCEPT ![g] = NoSweep]
          BY <3>1, <3>2 DEF Sweeping
        <4>2. NoSweep.chunks = {}
          BY DEF NoSweep
        <4> QED
          BY <4>1, <4>2
      <3>3. CASE B # {}
        <4> DEFINE s == [gc[g] EXCEPT !.age = Open(g), !.chunks = B, !.pc = "p3_delete"]
        <4>1. s.chunks = B
          BY <1>0 DEF SweepType
        <4> QED
          BY <3>1, <3>3, <4>1 DEF Sweeping
      <3> QED
        BY <3>2, <3>3
    <2>2. gc'[g] = s /\ chunk' = chunk
      BY <1>0, <1>4, <2>1 DEF LockChunks, Sweeping, tables
    <2>3. \A h \in Sweepers : s.chunks \cap gc[h].chunks = {}
      BY <2>1 DEF ChunkLocked
    <2>4. \A h \in Sweepers : Locks(h, gc[h])'
      BY <1>0, <2>1, <2>2, <2>3 DEF Owned, Locks
    <2> QED
      BY <1>3, <2>4 DEF Owned
  <1>5. CASE ~LockChunks(g)
    <2>1. gc'[g].chunks \subseteq gc[g].chunks
      BY <1>5, SweepFrame
    <2>2. CASE chunk' = chunk
      <3>1. \A h \in Sweepers : Locks(h, gc[h])'
        BY <1>0, <2>1, <2>2 DEF Owned, Locks
      <3> QED
        BY <1>3, <3>1 DEF Owned
    <2>3. CASE CommitChunks(g) /\ chunk' = chunk \ gc[g].chunks
      <3>1. gc'[g].chunks = {}
        BY <1>0, <2>3 DEF CommitChunks, Closed, NoSweep
      <3>2. \A h \in Sweepers : Locks(h, gc[h])'
        BY <1>0, <2>3, <3>1 DEF Owned, Locks
      <3> QED
        BY <1>3, <3>2 DEF Owned
    <2> QED
      BY <1>1, <2>2, <2>3
  <1> QED
    BY <1>4, <1>5

\* The clock moves no lock and no row of a transaction.
LEMMA TickFrame ==
    ASSUME IInv, Tick
    PROVE  /\ \A w \in Workers :
                /\ tx'[w].pc = tx[w].pc /\ tx'[w].msg = tx[w].msg /\ tx'[w].next = tx[w].next
                /\ tx'[w].todo = tx[w].todo /\ tx'[w].missing = tx[w].missing
                /\ tx'[w].newChunk = tx[w].newChunk /\ tx'[w].newRow = tx[w].newRow
                /\ tx'[w].link = tx[w].link /\ tx'[w].to = tx[w].to
                /\ tx'[w].age = IF tx[w].pc = "idle" THEN tx[w].age ELSE tx[w].age + 1
           /\ \A g \in Sweepers : /\ gc'[g].pc = gc[g].pc /\ gc'[g].chunks = gc[g].chunks
                                  /\ gc'[g].blobs = gc[g].blobs
  <1>1. ASSUME NEW w \in Workers
        PROVE  tx'[w] = IF tx[w].pc = "idle" THEN tx[w] ELSE [tx[w] EXCEPT !.age = @ + 1]
    BY DEF Tick
  <1>2. ASSUME NEW g \in Sweepers
        PROVE  gc'[g] = IF gc[g].age = NULL THEN gc[g] ELSE [gc[g] EXCEPT !.age = @ + 1]
    BY DEF Tick
  <1>3. \A w \in Workers : tx[w] \in TxType
    BY DEF IInv
  <1>4. \A g \in Sweepers : gc[g] \in SweepType
    BY DEF IInv
  <1>5. ASSUME NEW w \in Workers
        PROVE  /\ tx'[w].pc = tx[w].pc /\ tx'[w].msg = tx[w].msg /\ tx'[w].next = tx[w].next
               /\ tx'[w].todo = tx[w].todo /\ tx'[w].missing = tx[w].missing
               /\ tx'[w].newChunk = tx[w].newChunk /\ tx'[w].newRow = tx[w].newRow
               /\ tx'[w].link = tx[w].link /\ tx'[w].to = tx[w].to
               /\ tx'[w].age = IF tx[w].pc = "idle" THEN tx[w].age ELSE tx[w].age + 1
    <2>1. CASE tx[w].pc = "idle"
      BY <1>1, <2>1
    <2>2. CASE tx[w].pc # "idle"
      <3>1. tx'[w] = [tx[w] EXCEPT !.age = @ + 1]
        BY <1>1, <2>2
      <3> QED
        BY <1>3, <2>2, <3>1 DEF TxType
    <2> QED
      BY <2>1, <2>2
  <1>6. ASSUME NEW g \in Sweepers
        PROVE  /\ gc'[g].pc = gc[g].pc /\ gc'[g].chunks = gc[g].chunks
               /\ gc'[g].blobs = gc[g].blobs
    BY <1>2, <1>4 DEF SweepType
  <1> QED
    BY <1>5, <1>6

\* Every step keeps the ownership of chunk rows.
LEMMA OwnedNext == ASSUME IInv, Owned, [Next]_vars PROVE Owned'
  <1>1. ASSUME NEW w \in Workers, Work(w) \/ Abort(w) \/ WorkerVictim(w) PROVE Owned'
    <2>1. CASE Commit(w)
      BY <2>1, CommitOwned
    <2>2. CASE ~Commit(w)
      <3>1. Creates(w, tx'[w])
        BY <1>1, <2>2, InsertChunkCreates, LinkCreates, OtherCreates
      <3> QED
        BY <1>1, <2>2, <3>1, CreatesStep
    <2> QED
      BY <2>1, <2>2
  <1>2. ASSUME NEW x \in Mailboxes, NEW m \in Msgs, DeleteCopy(x, m) PROVE Owned'
    BY <1>2 DEF DeleteCopy, Owned, Creates, Claimed, Locks, ChunkAt
  <1>3. ASSUME NEW g \in Sweepers, Sweep(g) \/ CrashSweep(g) \/ SweepVictim(g) PROVE Owned'
    BY <1>3, SweepOwned
  <1>4. CASE Tick
    <2>1. chunk' = chunk
      BY <1>4 DEF Tick
    <2>2. \A w \in Workers : Creates(w, tx[w])'
      BY <1>4, <2>1, TickFrame DEF Owned, Creates, Claimed, ChunkAt
    <2>3. \A g \in Sweepers : Locks(g, gc[g])'
      BY <1>4, <2>1, TickFrame DEF Owned, Locks
    <2> QED
      BY <2>2, <2>3 DEF Owned
  <1>5. CASE UNCHANGED vars
    BY <1>5 DEF vars, tables, Owned, Creates, Claimed, Locks, ChunkAt
  <1> QED
    BY <1>1, <1>2, <1>3, <1>4, <1>5 DEF Next

\* At any time a chunk row has one owner: the table, or the one delivery that is
\* creating it; and at most one sweep is deleting it.
THEOREM ChunkOwners == Spec => []Owned
  <1>1. Init => Owned
    BY DEF Init, Owned, Creates, Locks, NoTx, NoSweep
  <1>2. IInv /\ Owned /\ [Next]_vars => Owned'
    BY OwnedNext
  <1> QED
    BY <1>1, <1>2, Invariance, PTL DEF Spec
-----------------------------------------------------------------------------
(* The objects behind the chunk rows.  The one race that row locks and     *)
(* foreign keys do not decide: a delivery uploads an object for a chunk    *)
(* whose row it did not find, and another delivery creates and loses that  *)
(* row before the first one inserts its own.  The row can only be lost     *)
(* after the blob row that came with it, and that blob is too young: it    *)
(* was committed by a transaction that overlaps the first delivery, so its *)
(* clock shows at most TxnBound more than the delivery's own age.          *)

\* The time gc.GRACE has to cover, and no sweep dies between its S3 delete and its
\* commit.
GraceCovers == 2 * TxnBound <= Grace /\ ~CrashAfterS3

Young(b, age) == idle[b] = NULL \/ idle[b] <= TxnBound + age

\* A chunk row without an object is one whose deletion is about to be committed.
Backed ==
    \A c \in chunk : \/ c \in object
                     \/ \E g \in Sweepers : gc[g].pc = "p3_commit" /\ c \in gc[g].chunks

\* What a delivery has uploaded is there, and what another one has stored in the
\* meantime is held by a young blob.
Uploaded(t) ==
    /\ t.age <= TxnBound
    /\ t.newChunk \cup (t.missing \ t.todo) \subseteq object
    /\ t.pc = "insert_chunks" => t.todo = {}
    /\ t.pc = "idle" => t.missing = {}
    /\ \A c \in t.missing \cap chunk : \E r \in blobChunk : ChunkAt(r) = c /\ Young(r[1], t.age)

Objects == Backed /\ \A w \in Workers : Uploaded(tx[w])

\* A transaction that has uploaded nothing.
LEMMA UploadedNothing ==
    ASSUME NEW t, t.age = 0, t.newChunk = {}, t.missing = {}, t.pc # "insert_chunks"
    PROVE  Uploaded(t)
  BY StoreConstants DEF Uploaded

\* A delivery's steps before its commit keep what it has uploaded.
LEMMA WorkUploaded ==
    ASSUME IInv, Objects, NEW w \in Workers, Work(w) \/ Abort(w) \/ WorkerVictim(w)
    PROVE  /\ object \subseteq object'
           /\ tx'[w].age <= TxnBound
           /\ tx'[w].newChunk \cup (tx'[w].missing \ tx'[w].todo) \subseteq object'
           /\ tx'[w].pc = "insert_chunks" => tx'[w].todo = {}
           /\ tx'[w].pc = "idle" => tx'[w].missing = {}
           /\ \A c \in tx'[w].missing \cap chunk : c \in tx[w].missing /\ tx'[w].age = tx[w].age
  <1> DEFINE t == tx[w]
             u == tx'[w]
             Kept == /\ object \subseteq object'
                     /\ u.age <= TxnBound
                     /\ u.newChunk \cup (u.missing \ u.todo) \subseteq object'
                     /\ u.pc = "insert_chunks" => u.todo = {}
                     /\ u.pc = "idle" => u.missing = {}
                     /\ \A c \in u.missing \cap chunk : c \in t.missing /\ u.age = t.age
  <1>0. t \in TxType /\ tx \in [Workers -> TxType] /\ Uploaded(t)
    BY DEF IInv, Objects
  <1>1. ASSUME object' = object, u.age = 0, u.newChunk = {}, u.missing = {}, u.pc # "insert_chunks"
        PROVE  Kept
    BY <1>1, StoreConstants
  <1>2. ASSUME object' = object, u.age = t.age, u.newChunk = t.newChunk, u.missing = t.missing,
               u.todo = t.todo, u.pc \notin {"insert_chunks", "idle"}
        PROVE  Kept
    BY <1>0, <1>2 DEF Uploaded
  <1>3. ASSUME NEW m \in Msgs, Claim(w, m) PROVE Kept
    <2>1. PICK pc \in {AfterMessage(m), "drop"} : u = [NoTx EXCEPT !.pc = pc, !.msg = m]
      BY <1>0, <1>3 DEF Claim
    <2>2. pc # "insert_chunks"
      BY DEF AfterMessage
    <2>3. object' = object
      BY <1>3 DEF Claim
    <2> QED
      BY <1>1, <2>1, <2>2, <2>3 DEF NoTx
  <1>4. CASE RolledBack(w) /\ object' = object
    BY <1>0, <1>1, <1>4 DEF RolledBack, NoTx
  <1>5. CASE ReadKnown(w)
    BY <1>0, <1>2, <1>5 DEF ReadKnown, InTx, TxType
  <1>6. CASE ReadChunks(w)
    <2> DEFINE absent == {ChunksOf[Blob(w)][i] : i \in DOMAIN ChunksOf[Blob(w)]}
                            \ (chunk \cup t.newChunk)
    <2>1. /\ u.todo = absent /\ u.missing = absent /\ u.newChunk = t.newChunk
          /\ u.age = t.age /\ u.pc \notin {"insert_chunks", "idle"} /\ object' = object
      BY <1>0, <1>6 DEF ReadChunks, InTx, TxType
    <2> QED
      BY <1>0, <2>1 DEF Uploaded
  <1>7. CASE Upload(w)
    <2>1. PICK c : /\ object' = object \cup {c}
                   /\ tx' = [tx EXCEPT ![w].todo = @ \ {c}, ![w].pc = AfterUpload(t.todo \ {c})]
      BY <1>7 DEF Upload
    <2>2. /\ u.todo = t.todo \ {c} /\ u.missing = t.missing /\ u.newChunk = t.newChunk
          /\ u.age = t.age /\ u.pc = AfterUpload(t.todo \ {c})
      BY <1>0, <2>1 DEF TxType
    <2> QED
      BY <1>0, <2>1, <2>2 DEF Uploaded, AfterUpload
  <1>8. CASE InsertChunk(w)
    <2>1. PICK c \in FirstOf(Blob(w), t.missing) :
              tx' = [tx EXCEPT ![w].missing = @ \ {c},
                               ![w].newChunk = @ \cup ({c} \ chunk),
                               ![w].pc = AfterChunkRow(t.missing \ {c})]
      BY <1>8 DEF InsertChunk
    <2>2. /\ u.todo = t.todo /\ u.missing = t.missing \ {c} /\ u.age = t.age
          /\ u.newChunk = t.newChunk \cup ({c} \ chunk)
      BY <1>0, <2>1 DEF TxType
    <2>3. t.pc = "insert_chunks" /\ c \in t.missing /\ object' = object
      BY <1>8, <2>1 DEF InsertChunk, InTx, FirstOf
    <2>4. u.pc # "idle"
      BY <1>0, <2>1 DEF AfterChunkRow, TxType
    <2> QED
      BY <1>0, <2>2, <2>3, <2>4 DEF Uploaded
  <1>9. CASE InsertBlob(w)
    BY <1>0, <1>2, <1>9 DEF InsertBlob, InTx, TxType
  <1>10. CASE InsertMap(w)
    <2>1. AfterMap(Blob(w), t.seq) \in {"link", "insert_map"}
      BY DEF AfterMap
    <2>2. CASE ~RolledBack(w)
      <3>1. /\ u.pc = AfterMap(Blob(w), t.seq) /\ u.age = t.age /\ u.newChunk = t.newChunk
            /\ u.missing = t.missing /\ u.todo = t.todo /\ object' = object
        BY <1>0, <1>10, <2>2 DEF InsertMap, InTx, TxType
      <3> QED
        BY <1>2, <2>1, <3>1
    <2> QED
      BY <1>4, <1>10, <2>2 DEF InsertMap
  <1>11. CASE Link(w)
    <2>1. AfterAttachment(t) \in {"resolve", "known"}
      BY DEF AfterAttachment
    <2>2. CASE ~RolledBack(w)
      <3>1. /\ u.pc = AfterAttachment(t) /\ u.age = t.age /\ u.newChunk = t.newChunk
            /\ u.missing = t.missing /\ u.todo = t.todo /\ object' = object
        BY <1>0, <1>11, <2>2 DEF Link, InTx, TxType
      <3> QED
        BY <1>2, <2>1, <3>1
    <2> QED
      BY <1>4, <1>11, <2>2 DEF Link
  <1>12. CASE Resolve(w)
    BY <1>0, <1>2, <1>12 DEF Resolve, InTx, TxType
  <1>13. CASE Deliver(w)
    BY <1>0, <1>2, <1>13 DEF Deliver, InTx, TxType
  <1>14. CASE Commit(w) \/ Drop(w) \/ Abort(w) \/ WorkerVictim(w)
    BY <1>4, <1>14 DEF Commit, Drop, Abort, WorkerVictim
  <1> QED
    BY <1>3, <1>5, <1>6, <1>7, <1>8, <1>9, <1>10, <1>11, <1>12, <1>13, <1>14 DEF Work
\* A delivery's steps other than its commit.
LEMMA WorkObjects ==
    ASSUME IInv, Objects, NEW w \in Workers,
           Work(w) \/ Abort(w) \/ WorkerVictim(w), ~Commit(w)
    PROVE  Objects'
  <1>1. /\ gc' = gc /\ chunk' = chunk /\ blobChunk' = blobChunk /\ idle' = idle
        /\ \A v \in Workers : v # w => tx'[v] = tx[v]
    BY WorkerFrame
  <1>2. object \subseteq object'
    BY WorkUploaded
  <1>3. Backed'
    BY <1>1, <1>2 DEF Objects, Backed
  <1>4. ASSUME NEW v \in Workers PROVE Uploaded(tx[v])'
    <2>1. CASE v = w
      BY <1>1, <2>1, WorkUploaded DEF Objects, Uploaded, Young, ChunkAt
    <2>2. CASE v # w
      BY <1>1, <1>2, <2>2 DEF Objects, Uploaded, Young, ChunkAt
    <2> QED
      BY <2>1, <2>2
  <1> QED
    BY <1>3, <1>4 DEF Objects

\* A commit brings the objects of its chunk rows, and a young blob for each of them.
LEMMA CommitObjects ==
    ASSUME IInv, Owned, Objects, NEW w \in Workers, Commit(w)
    PROVE  Objects'
  <1> DEFINE t == tx[w]
  <1>1. /\ chunk' = chunk \cup t.newChunk /\ blobChunk' = blobChunk \cup t.newRow
        /\ idle' = [b \in Blobs |-> DeliveredClock(t, b)]
        /\ gc' = gc /\ object' = object
        /\ tx'[w] = NoTx /\ \A v \in Workers : v # w => tx'[v] = tx[v]
    BY DEF Commit, RolledBack, IInv
  <1>2. /\ t.pc = "commit" /\ t \in TxType /\ Uploaded(t) /\ Creates(w, t)
        /\ Mapped(t) /\ Alone(w, t)
    BY DEF Commit, Objects, Owned, IInv, Delivery
  <1>3. Backed'
    BY <1>1, <1>2 DEF Objects, Backed, Uploaded
  <1>4. ASSUME NEW b \in blob, NEW age \in Nat, Young(b, age)
        PROVE  Young(b, age)'
    <2>1. b \in Blobs /\ b \notin t.newBlob
      BY <1>2 DEF IInv, Stored, RowTypes, Alone
    <2>2. idle'[b] \in {NULL, idle[b]}
      BY <1>1, <2>1 DEF DeliveredClock
    <2> QED
      BY <1>4, <2>2 DEF Young
  <1>5. ASSUME NEW b \in t.newBlob, NEW age \in Nat
        PROVE  Young(b, age)'
    <2>1. idle'[b] \in {NULL, t.age} /\ t.age \in Nat
      BY <1>1, <1>2 DEF DeliveredClock, TxType
    <2> QED
      BY <1>2, <2>1, StoreConstants DEF Uploaded, Young
  <1>6. ASSUME NEW v \in Workers PROVE Uploaded(tx[v])'
    <2>1. CASE v = w
      BY <1>1, <2>1, UploadedNothing DEF Uploaded, NoTx
    <2>2. CASE v # w
      <3>1. tx'[v] = tx[v] /\ Uploaded(tx[v]) /\ tx[v].age \in Nat
        BY <1>1, <2>2 DEF Objects, IInv, TxType
      <3>2. ASSUME NEW c \in tx[v].missing \cap chunk'
            PROVE  \E r \in blobChunk' : ChunkAt(r) = c /\ Young(r[1], tx[v].age)'
        <4>1. CASE c \in chunk
          <5>1. PICK r \in blobChunk : ChunkAt(r) = c /\ Young(r[1], tx[v].age)
            BY <3>1, <3>2, <4>1 DEF Uploaded
          <5>2. r[1] \in blob
            BY DEF IInv, Stored, Referenced
          <5> QED
            BY <1>1, <1>4, <3>1, <5>1, <5>2
        <4>2. CASE c \in t.newChunk
          <5>1. PICK r \in t.newRow : ChunkAt(r) = c
            BY <1>2, <4>2 DEF Creates, Claimed
          <5>2. r[1] \in t.newBlob
            BY <1>2 DEF Mapped
          <5> QED
            BY <1>1, <1>5, <3>1, <5>1, <5>2
        <4> QED
          BY <1>1, <3>2, <4>1, <4>2
      <3> QED
        BY <1>1, <3>1, <3>2 DEF Uploaded, Young, ChunkAt
    <2> QED
      BY <2>1, <2>2
  <1> QED
    BY <1>3, <1>6 DEF Objects

\* Deleting a copy can only restart a clock.
LEMMA DeleteCopyObjects ==
    ASSUME IInv, Objects, NEW x \in Mailboxes, NEW m \in Msgs, DeleteCopy(x, m)
    PROVE  Objects'
  <1>1. /\ UNCHANGED <<chunk, blobChunk, object, gc, tx>>
        /\ idle' = [b \in Blobs |-> IF b \in AttBlobs(m)
                                    THEN IF refcount[b] - 1 <= 0 THEN 0 ELSE NULL
                                    ELSE idle[b]]
    BY DEF DeleteCopy
  <1>2. ASSUME NEW r \in blobChunk, NEW age \in Nat, Young(r[1], age)
        PROVE  Young(r[1], age)'
    <2>1. r[1] \in Blobs
      BY DEF IInv, Stored, RowTypes
    <2>2. idle'[r[1]] \in {0, NULL, idle[r[1]]}
      BY <1>1, <2>1
    <2> QED
      BY <1>2, <2>2, StoreConstants DEF Young
  <1>3. ASSUME NEW w \in Workers PROVE Uploaded(tx[w])'
    <2>1. Uploaded(tx[w]) /\ tx[w].age \in Nat
      BY DEF Objects, IInv, TxType
    <2> QED
      BY <1>1, <1>2, <2>1 DEF Uploaded, Young, ChunkAt
  <1>4. Backed'
    BY <1>1 DEF Objects, Backed
  <1> QED
    BY <1>3, <1>4 DEF Objects

\* Time ages the delivery and the blob alike.
LEMMA TickObjects == ASSUME IInv, Objects, Tick PROVE Objects'
  <1>1. /\ UNCHANGED <<chunk, blobChunk, object>>
        /\ idle' = [b \in Blobs |-> Older(idle[b])]
        /\ \A w \in Workers : tx[w].pc # "idle" => tx[w].age < TxnBound
    BY DEF Tick
  <1>2. Backed'
    BY <1>1, TickFrame DEF Objects, Backed
  <1>3. ASSUME NEW w \in Workers PROVE Uploaded(tx[w])'
    <2>1. Uploaded(tx[w]) /\ tx[w].age \in Nat
      BY DEF Objects, IInv, TxType
    <2>2. CASE tx[w].pc = "idle"
      BY <1>1, <2>1, <2>2, TickFrame DEF Uploaded
    <2>3. CASE tx[w].pc # "idle"
      <3>1. ASSUME NEW r \in blobChunk, Young(r[1], tx[w].age)
            PROVE  Young(r[1], tx[w].age)'
        <4>1. r[1] \in Blobs /\ idle[r[1]] \in Nat \cup {NULL}
          BY DEF IInv, Stored, RowTypes
        <4>2. idle'[r[1]] = idle[r[1]] \/ (idle[r[1]] \in Nat /\ idle'[r[1]] = idle[r[1]] + 1)
          BY <1>1, <4>1 DEF Older
        <4>3. tx'[w].age = tx[w].age + 1
          BY <2>3, TickFrame
        <4> QED
          BY <2>1, <3>1, <4>1, <4>2, <4>3, StoreConstants DEF Young
      <3>2. tx'[w].age <= TxnBound
        BY <1>1, <2>1, <2>3, TickFrame, StoreConstants
      <3> QED
        BY <1>1, <2>1, <2>3, <3>1, <3>2, TickFrame DEF Uploaded, Young, ChunkAt
    <2> QED
      BY <2>2, <2>3
  <1> QED
    BY <1>2, <1>3 DEF Objects
\* The blob rows a sweep deletes are too old to be the young ones; the chunk rows it
\* deletes are held by no blob, and go once their objects are gone.
LEMMA SweepObjects ==
    ASSUME GraceCovers, IInv, Overdue, Owned, Objects, NEW g \in Sweepers,
           Sweep(g) \/ CrashSweep(g) \/ SweepVictim(g)
    PROVE  Objects'
  <1>0. /\ tx' = tx /\ gc \in [Sweepers -> SweepType]
        /\ \A h \in Sweepers : h # g => gc'[h] = gc[h]
    BY SweepFrame DEF IInv
  <1>1. CASE CommitBlobs(g)
    <2>1. /\ chunk' = chunk /\ object' = object
          /\ blobChunk' = blobChunk \ RowsOf(gc[g].blobs)
          /\ idle' = [b \in Blobs |-> IF b \in gc[g].blobs THEN NULL ELSE idle[b]]
          /\ gc[g].pc = "p2_commit"
      BY <1>1 DEF CommitBlobs, InSweep
    <2>2. Backed'
      BY <1>0, <2>1 DEF Objects, Backed
    <2>3. ASSUME NEW w \in Workers, NEW r \in blobChunk, Young(r[1], tx[w].age)
          PROVE  r \in blobChunk' /\ Young(r[1], tx[w].age)'
      <3>1. /\ r[1] \in Blobs /\ idle[r[1]] \in Nat \cup {NULL} /\ tx[w].age \in Nat
            /\ tx[w].age <= TxnBound
        BY DEF IInv, Stored, RowTypes, TxType, Objects, Uploaded
      <3>2. r[1] \notin gc[g].blobs
        BY <2>3, <3>1, StoreConstants DEF Overdue, Young, GraceCovers
      <3> QED
        BY <1>0, <2>1, <2>3, <3>1, <3>2 DEF RowsOf, Young
    <2>4. \A w \in Workers : Uploaded(tx[w])'
      BY <1>0, <2>1, <2>3 DEF Objects, Uploaded, Young, ChunkAt
    <2> QED
      BY <2>2, <2>4 DEF Objects
  <1>2. CASE DeleteObjects(g)
    <2>1. /\ UNCHANGED <<chunk, blobChunk, idle>>
          /\ object \ gc[g].chunks \subseteq object'
          /\ gc[g].pc = "p3_s3" /\ gc'[g].pc = "p3_commit" /\ gc'[g].chunks = gc[g].chunks
      BY <1>0, <1>2 DEF DeleteObjects, InSweep, tables, SweepType
    <2>2. gc[g].chunks \subseteq chunk /\ \A r \in blobChunk : ChunkAt(r) \notin gc[g].chunks
      BY <2>1, OpenType DEF Reclaiming, Owned, Locks
    <2>3. Backed'
      BY <1>0, <2>1 DEF Objects, Backed
    <2>4. ASSUME NEW w \in Workers
          PROVE  tx[w].newChunk \cup (tx[w].missing \ tx[w].todo) \subseteq object \ gc[g].chunks
      <3>1. tx[w].newChunk \cap gc[g].chunks = {}
        BY <2>2 DEF Owned, Creates
      <3>2. tx[w].missing \cap gc[g].chunks = {}
        BY <2>2 DEF Objects, Uploaded
      <3> QED
        BY <3>1, <3>2 DEF Objects, Uploaded
    <2>5. \A w \in Workers : Uploaded(tx[w])'
      BY <1>0, <2>1, <2>4 DEF Objects, Uploaded, Young, ChunkAt
    <2> QED
      BY <2>3, <2>5 DEF Objects
  <1>3. CASE CommitChunks(g)
    <2>1. UNCHANGED <<blobChunk, idle, object>> /\ chunk' = chunk \ gc[g].chunks
      BY <1>3 DEF CommitChunks
    <2>2. Backed'
      BY <1>0, <2>1 DEF Objects, Backed
    <2>3. \A w \in Workers : Uploaded(tx[w])'
      BY <1>0, <2>1 DEF Objects, Uploaded, Young, ChunkAt
    <2> QED
      BY <2>2, <2>3 DEF Objects
  <1>4. CASE ~CommitBlobs(g) /\ ~DeleteObjects(g) /\ ~CommitChunks(g)
    <2>1. UNCHANGED <<chunk, blobChunk, idle, object>>
      BY <1>4 DEF Sweep, CrashSweep, SweepVictim, Sweeping, tables, BeginSweep, LockOrphans,
         DeleteOrphans, CommitOrphans, SelectBlobs, LockBlobs, LowerChunks, DeleteBlobs,
         LockChunks, DeleteChunks
    <2>2. gc[g].pc # "p3_commit"
      <3>1. CrashSweep(g) => (gc[g].pc = "p3_commit" => CrashAfterS3)
        BY DEF CrashSweep
      <3> QED
        BY <1>4, <3>1, SweepFrame DEF GraceCovers
    <2>3. Backed'
      BY <1>0, <2>1, <2>2 DEF Objects, Backed
    <2>4. \A w \in Workers : Uploaded(tx[w])'
      BY <1>0, <2>1 DEF Objects, Uploaded, Young, ChunkAt
    <2> QED
      BY <2>3, <2>4 DEF Objects
  <1> QED
    BY <1>1, <1>2, <1>3, <1>4

\* Every step keeps the objects of the chunk rows.
LEMMA ObjectsNext ==
    ASSUME GraceCovers, IInv, Overdue, Owned, Objects, [Next]_vars
    PROVE  Objects'
  <1>1. ASSUME NEW w \in Workers, Work(w) \/ Abort(w) \/ WorkerVictim(w) PROVE Objects'
    BY <1>1, WorkObjects, CommitObjects
  <1>2. ASSUME NEW x \in Mailboxes, NEW m \in Msgs, DeleteCopy(x, m) PROVE Objects'
    BY <1>2, DeleteCopyObjects
  <1>3. ASSUME NEW g \in Sweepers, Sweep(g) \/ CrashSweep(g) \/ SweepVictim(g) PROVE Objects'
    BY <1>3, SweepObjects
  <1>4. CASE Tick
    BY <1>4, TickObjects
  <1>5. CASE UNCHANGED vars
    BY <1>5 DEF vars, tables, Objects, Backed, Uploaded, Young, ChunkAt
  <1> QED
    BY <1>1, <1>2, <1>3, <1>4, <1>5 DEF Next

\* No chunk row that a blob row names is ever without its object.
THEOREM ObjectsStay == ASSUME GraceCovers PROVE Spec => []Objects
  <1>1. Init => Objects
    BY UploadedNothing DEF Init, Objects, Backed, NoTx
  <1>2. IInv /\ Overdue /\ Owned /\ Objects /\ [Next]_vars => Objects'
    BY ObjectsNext
  <1> QED
    BY <1>1, <1>2, Invariance, OverdueInvariance, ChunkOwners, PTL DEF Spec

\* A blob row can be served.
LEMMA Complete == ASSUME IInv, Objects, NEW b \in blob PROVE Served(b)
  <1>1. ASSUME NEW i \in DOMAIN ChunksOf[b]
        PROVE  <<b, i>> \in blobChunk /\ ChunksOf[b][i] \in chunk \cap object
    <2>1. <<b, i>> \in blobChunk
      BY DEF IInv, Stored, Referenced
    <2>2. ChunkAt(<<b, i>>) \in chunk /\ ChunkAt(<<b, i>>) = ChunksOf[b][i]
      BY <2>1 DEF IInv, Stored, Referenced, ChunkAt
    <2>3. \A g \in Sweepers : gc[g].pc = "p3_commit" => ChunkAt(<<b, i>>) \notin gc[g].chunks
      BY <2>1 DEF IInv, Reclaiming
    <2> QED
      BY <2>1, <2>2, <2>3 DEF Objects, Backed
  <1> QED
    BY <1>1 DEF Served

\* _store_attachment trusts the blob row alone, and may: with a grace period of at
\* least two transactions, a blob row has its chunk map, its chunk rows and its objects.
THEOREM BlobsComplete == ASSUME GraceCovers PROVE Spec => []BlobRowsAreComplete
  <1>1. IInv /\ Objects => BlobRowsAreComplete
    BY Complete DEF BlobRowsAreComplete
  <1> QED
    BY <1>1, Invariance, ObjectsStay, PTL
-----------------------------------------------------------------------------
(* Every attachment of a message is linked to its blob.                    *)

\* The attachments a delivery has passed are linked: all of them at its end.
Linked(t) ==
    /\ t.pc \in AttachmentPcs => \A i \in 1..(t.next - 1) : AttachmentsOf[t.msg][i] \in t.link
    /\ t.pc \in {"resolve", "deliver", "commit"} =>
        \A i \in DOMAIN AttachmentsOf[t.msg] : AttachmentsOf[t.msg][i] \in t.link

Carried ==
    /\ \A m \in message : \A i \in DOMAIN AttachmentsOf[m] : <<m, AttachmentsOf[m][i]>> \in attachment
    /\ \A w \in Workers : Linked(tx[w])

\* A delivery passes an attachment by linking it.
LEMMA WorkLinked ==
    ASSUME IInv, NEW w \in Workers, Work(w) \/ Abort(w) \/ WorkerVictim(w), Linked(tx[w])
    PROVE  Linked(tx'[w])
  <1> DEFINE t == tx[w]
             u == tx'[w]
  <1>0. t \in TxType /\ tx \in [Workers -> TxType] /\ Cursors(t)
    BY DEF IInv, Delivery
  <1>1. CASE RolledBack(w)
    BY <1>0, <1>1 DEF RolledBack, NoTx, Linked, AttachmentPcs
  <1>2. ASSUME t.pc \in AttachmentPcs, u.pc \in AttachmentPcs, u.msg = t.msg, u.next = t.next,
               u.link = t.link
        PROVE  Linked(u)
    BY <1>2 DEF Linked, AttachmentPcs
  <1>3. ASSUME NEW m \in Msgs, Claim(w, m) PROVE Linked(u)
    <2>1. PICK pc \in {AfterMessage(m), "drop"} : u = [NoTx EXCEPT !.pc = pc, !.msg = m]
      BY <1>0, <1>3 DEF Claim
    <2>2. u.pc = pc /\ u.msg = m /\ u.next = 1
      BY <2>1 DEF NoTx
    <2>3. pc = "resolve" => DOMAIN AttachmentsOf[m] = {}
      <3>1. pc = "resolve" => AttachmentsOf[m] = <<>>
        BY DEF AfterMessage
      <3> QED
        BY <3>1
    <2>4. pc \in {"resolve", "known", "drop"}
      BY DEF AfterMessage
    <2> QED
      BY <2>2, <2>3, <2>4 DEF Linked, AttachmentPcs
  <1>4. CASE ReadKnown(w)
    BY <1>0, <1>2, <1>4 DEF ReadKnown, InTx, TxType, AttachmentPcs
  <1>5. CASE ReadChunks(w)
    BY <1>0, <1>2, <1>5 DEF ReadChunks, InTx, TxType, AttachmentPcs
  <1>6. CASE Upload(w)
    <2>1. PICK c : tx' = [tx EXCEPT ![w].todo = @ \ {c}, ![w].pc = AfterUpload(t.todo \ {c})]
      BY <1>6 DEF Upload
    <2>2. t.pc = "upload" /\ u.pc \in {"upload", "insert_chunks"}
      BY <1>0, <1>6, <2>1 DEF Upload, InTx, AfterUpload, TxType
    <2>3. u.msg = t.msg /\ u.next = t.next /\ u.link = t.link
      BY <1>0, <2>1 DEF TxType
    <2> QED
      BY <1>2, <2>2, <2>3 DEF AttachmentPcs
  <1>7. CASE InsertChunk(w)
    <2>1. PICK c : tx' = [tx EXCEPT ![w].missing = @ \ {c}, ![w].newChunk = @ \cup ({c} \ chunk),
                                    ![w].pc = AfterChunkRow(t.missing \ {c})]
      BY <1>7 DEF InsertChunk
    <2>2. t.pc = "insert_chunks" /\ u.pc \in {"insert_blob", "insert_chunks"}
      BY <1>0, <1>7, <2>1 DEF InsertChunk, InTx, AfterChunkRow, TxType
    <2>3. u.msg = t.msg /\ u.next = t.next /\ u.link = t.link
      BY <1>0, <2>1 DEF TxType
    <2> QED
      BY <1>2, <2>2, <2>3 DEF AttachmentPcs
  <1>8. CASE InsertBlob(w)
    BY <1>0, <1>2, <1>8 DEF InsertBlob, InTx, TxType, AttachmentPcs
  <1>9. CASE InsertMap(w)
    <2>1. AfterMap(Blob(w), t.seq) \in {"link", "insert_map"}
      BY DEF AfterMap
    <2>2. CASE ~RolledBack(w)
      <3>1. /\ t.pc = "insert_map" /\ u.pc = AfterMap(Blob(w), t.seq)
            /\ u.msg = t.msg /\ u.next = t.next /\ u.link = t.link
        BY <1>0, <1>9, <2>2 DEF InsertMap, InTx, TxType
      <3> QED
        BY <1>2, <2>1, <3>1 DEF AttachmentPcs
    <2> QED
      BY <1>1, <2>2
  <1>10. CASE Link(w)
    <2>1. CASE ~RolledBack(w)
      <3>1. /\ t.pc = "link" /\ u.pc = AfterAttachment(t) /\ u.msg = t.msg /\ u.next = t.next + 1
            /\ u.link = t.link \cup {Blob(w)}
        BY <1>0, <1>10, <2>1 DEF Link, InTx, TxType
      <3>2. t.pc \in AttachmentPcs
        BY <3>1 DEF AttachmentPcs
      <3>3. /\ t.next \in 1..Len(AttachmentsOf[t.msg]) /\ Blob(w) = AttachmentsOf[t.msg][t.next]
            /\ AttachmentsOf[t.msg] \in Seq(Blobs)
        BY <3>2, AtAttachment
      <3>4. \A i \in 1..t.next : AttachmentsOf[t.msg][i] \in u.link
        <4>1. \A i \in 1..(t.next - 1) : AttachmentsOf[t.msg][i] \in t.link
          BY <3>2 DEF Linked
        <4>2. \A i \in 1..t.next : i \in 1..(t.next - 1) \/ i = t.next
          BY <3>3
        <4> QED
          BY <3>1, <3>3, <4>1, <4>2
      <3>5. AfterAttachment(t) = "resolve" => DOMAIN AttachmentsOf[t.msg] = 1..t.next
        BY <3>3 DEF AfterAttachment
      <3>6. AfterAttachment(t) \in {"resolve", "known"} /\ u.next - 1 = t.next
        BY <3>1, <3>3 DEF AfterAttachment
      <3> QED
        BY <3>1, <3>4, <3>5, <3>6 DEF Linked, AttachmentPcs
    <2> QED
      BY <1>1, <2>1
  <1>11. CASE Resolve(w)
    <2>1. /\ t.pc = "resolve" /\ u.pc \in {"commit", "deliver"} /\ u.msg = t.msg /\ u.link = t.link
      BY <1>0, <1>11 DEF Resolve, InTx, TxType
    <2> QED
      BY <2>1 DEF Linked, AttachmentPcs
  <1>12. CASE Deliver(w)
    <2>1. /\ t.pc = "deliver" /\ u.pc = "commit" /\ u.msg = t.msg /\ u.link = t.link
      BY <1>0, <1>12 DEF Deliver, InTx, TxType
    <2> QED
      BY <2>1 DEF Linked, AttachmentPcs
  <1> QED
    BY <1>1, <1>3, <1>4, <1>5, <1>6, <1>7, <1>8, <1>9, <1>10, <1>11, <1>12
    DEF Work, Commit, Drop, Abort, WorkerVictim

\* A message row and its attachment rows come and go together.
LEMMA CarriedNext == ASSUME IInv, Carried, [Next]_vars PROVE Carried'
  <1>1. ASSUME NEW w \in Workers, Work(w) \/ Abort(w) \/ WorkerVictim(w) PROVE Carried'
    <2>1. ASSUME NEW v \in Workers PROVE Linked(tx'[v])
      BY <1>1, WorkLinked, WorkerFrame DEF Carried
    <2>2. CASE Commit(w)
      <3>1. /\ message' = message \cup {tx[w].msg} /\ tx[w].pc = "commit"
            /\ attachment' = attachment \cup {<<tx[w].msg, b>> : b \in tx[w].link}
        BY <2>2 DEF Commit
      <3>2. \A i \in DOMAIN AttachmentsOf[tx[w].msg] : AttachmentsOf[tx[w].msg][i] \in tx[w].link
        BY <3>1 DEF Carried, Linked
      <3> QED
        BY <2>1, <3>1, <3>2 DEF Carried, Linked
    <2>3. CASE ~Commit(w)
      BY <1>1, <2>1, <2>3, WorkerFrame DEF Carried, Linked
    <2> QED
      BY <2>2, <2>3
  <1>2. ASSUME NEW x \in Mailboxes, NEW m \in Msgs, DeleteCopy(x, m) PROVE Carried'
    BY <1>2 DEF DeleteCopy, Carried, Linked
  <1>3. ASSUME NEW g \in Sweepers, Sweep(g) \/ CrashSweep(g) \/ SweepVictim(g) PROVE Carried'
    <2>1. tx' = tx
      BY <1>3, SweepFrame
    <2>2. CASE CommitOrphans(g)
      BY <2>1, <2>2 DEF CommitOrphans, Carried, Linked
    <2>3. CASE ~CommitOrphans(g)
      <3>1. UNCHANGED <<message, attachment>>
        BY <1>3, <2>3 DEF Sweep, CrashSweep, SweepVictim, Sweeping, tables, BeginSweep,
           LockOrphans, DeleteOrphans, SelectBlobs, LockBlobs, LowerChunks, DeleteBlobs,
           CommitBlobs, LockChunks, DeleteChunks, DeleteObjects, CommitChunks
      <3> QED
        BY <2>1, <3>1 DEF Carried, Linked
    <2> QED
      BY <2>2, <2>3
  <1>4. CASE Tick
    <2>1. UNCHANGED <<message, attachment>>
      BY <1>4 DEF Tick
    <2> QED
      BY <1>4, <2>1, TickFrame DEF Carried, Linked
  <1>5. CASE UNCHANGED vars
    BY <1>5 DEF vars, tables, Carried, Linked
  <1> QED
    BY <1>1, <1>2, <1>3, <1>4, <1>5 DEF Next

\* A message row has an attachment row for each of its attachments.
THEOREM AttachmentsLinked == Spec => []Carried
  <1>1. Init => Carried
    BY DEF Init, Carried, Linked, NoTx, AttachmentPcs
  <1>2. IInv /\ Carried /\ [Next]_vars => Carried'
    BY CarriedNext
  <1> QED
    BY <1>1, <1>2, Invariance, PTL DEF Spec

\* What an inbox shows can be served, whatever sweeps and other deliveries of the same
\* bytes do, if the grace period is at least two transactions.
LEMMA CopyServed ==
    ASSUME IInv, Carried, Objects, NEW k \in copy, NEW i \in DOMAIN AttachmentsOf[k[2]]
    PROVE  Served(AttachmentsOf[k[2]][i])
  <1>1. k[2] \in message
    BY DEF IInv, Stored, Referenced
  <1>2. <<k[2], AttachmentsOf[k[2]][i]>> \in attachment
    BY <1>1 DEF Carried
  <1>3. AttachmentsOf[k[2]][i] \in blob
    BY <1>2 DEF IInv, Stored, Referenced
  <1> QED
    BY <1>3, Complete

\* Every attachment of every copy can be downloaded: HLD 9.7's promise, for any number
\* of workers and sweeps, under GraceCovers.
THEOREM CopiesServed == ASSUME GraceCovers PROVE Spec => []EveryCopyIsServed
  <1>1. IInv /\ Carried /\ Objects => EveryCopyIsServed
    BY CopyServed DEF EveryCopyIsServed
  <1> QED
    BY <1>1, Invariance, AttachmentsLinked, ObjectsStay, PTL
-----------------------------------------------------------------------------
(* The store implements Inbox.                                             *)

\* The refinement mapping of Promise, and what it comes to: every copy.
Shown == {k \in copy : \A i \in DOMAIN AttachmentsOf[k[2]] : Served(AttachmentsOf[k[2]][i])}

LEMMA AllShown == ASSUME IInv, Carried, Objects PROVE Shown = copy
  BY CopyServed DEF Shown

\* A commit delivers, a drop delivers to nobody, a user's delete removes; every other
\* step, a sweep's commit of phase 1 included, is a stutter.
LEMMA InboxStep ==
    ASSUME IInv, Next
    PROVE  \/ UNCHANGED <<processed, copy>>
           \/ \E m \in Msgs : /\ m \notin processed /\ processed' = processed \cup {m}
                              /\ \E to \in SUBSET Reach[m] : copy' = copy \cup {<<x, m>> : x \in to}
           \/ \E x \in Mailboxes, m \in Msgs : /\ <<x, m>> \in copy /\ copy' = copy \ {<<x, m>>}
                                               /\ processed' = processed
  <1>1. ASSUME NEW w \in Workers, Commit(w) \/ Drop(w)
        PROVE  \E m \in Msgs : /\ m \notin processed /\ processed' = processed \cup {m}
                               /\ \E to \in SUBSET Reach[m] : copy' = copy \cup {<<x, m>> : x \in to}
    <2> DEFINE m == tx[w].msg
    <2>1. tx[w].pc # "idle" /\ m \in Msgs /\ m \notin processed /\ tx[w].to \in SUBSET Reach[m]
      BY <1>1 DEF Commit, Drop, IInv, Delivery, Cursors, Alone
    <2>2. processed' = processed \cup {m}
      BY <1>1 DEF Commit, Drop
    <2>3. CASE Commit(w)
      <3>1. copy' = copy \cup {<<x, m>> : x \in tx[w].to}
        BY <2>3 DEF Commit
      <3> QED
        BY <2>1, <2>2, <3>1
    <2>4. CASE Drop(w)
      <3>1. copy' = copy \cup {<<x, m>> : x \in {}} /\ {} \in SUBSET Reach[m]
        BY <2>4 DEF Drop
      <3> QED
        BY <2>1, <2>2, <3>1
    <2> QED
      BY <1>1, <2>3, <2>4
  <1>2. ASSUME NEW w \in Workers, Work(w) \/ Abort(w) \/ WorkerVictim(w), ~Commit(w), ~Drop(w)
        PROVE  UNCHANGED <<processed, copy>>
    BY <1>2 DEF Work, Claim, ReadKnown, ReadChunks, Upload, InsertChunk, InsertBlob, InsertMap,
       Link, Resolve, Deliver, InTx, Abort, WorkerVictim, tables
  <1>3. ASSUME NEW x \in Mailboxes, NEW m \in Msgs, DeleteCopy(x, m)
        PROVE  <<x, m>> \in copy /\ copy' = copy \ {<<x, m>>} /\ processed' = processed
    BY <1>3 DEF DeleteCopy
  <1>4. ASSUME NEW g \in Sweepers, CommitOrphans(g)
        PROVE  UNCHANGED <<processed, copy>>
    <2>1. \A k \in copy : k[2] \notin gc[g].msgs
      BY <1>4, OpenType DEF CommitOrphans, InSweep, Reclaiming
    <2> QED
      BY <1>4, <2>1 DEF CommitOrphans
  <1>5. ASSUME NEW g \in Sweepers, Sweep(g) \/ CrashSweep(g) \/ SweepVictim(g), ~CommitOrphans(g)
        PROVE  UNCHANGED <<processed, copy>>
    BY <1>5 DEF Sweep, CrashSweep, SweepVictim, Sweeping, tables, BeginSweep, LockOrphans,
       DeleteOrphans, SelectBlobs, LockBlobs, LowerChunks, DeleteBlobs, CommitBlobs,
       LockChunks, DeleteChunks, DeleteObjects, CommitChunks
  <1>6. CASE Tick
    BY <1>6 DEF Tick
  <1> QED
    BY <1>1, <1>2, <1>3, <1>4, <1>5, <1>6 DEF Next

\* The store implements Inbox: each message is delivered at most once, to all its
\* mailboxes at once, and a copy stays whole until its owner removes it.  Sweeps,
\* retries, rollbacks and dedup are invisible.
THEOREM StoreImplementsInbox == ASSUME GraceCovers PROVE Spec => ImplementsInbox
  <1> DEFINE Whole == IInv /\ Carried /\ Objects
  <1>1. Init => Promise!Init
    BY DEF Init, Promise!Init
  <1>2. Whole => Shown = copy
    BY AllShown
  <1>3. Whole' => (Shown = copy)'
    BY <1>2, PTL
  <1>4. Whole /\ Whole' /\ [Next]_vars => [Promise!Next]_<<processed, Shown>>
    <2> SUFFICES ASSUME Whole, Whole', [Next]_vars,
                        ~UNCHANGED <<processed, Shown>>
                 PROVE  Promise!Next
      OBVIOUS
    <2>1. Shown = copy /\ Shown' = copy'
      BY <1>2, <1>3
    <2> QED
      BY <2>1, InboxStep DEF Promise!Next, Promise!Deliver, Promise!Remove, Shown, vars, tables
  <1>5. Spec => []Whole
    BY Invariance, AttachmentsLinked, ObjectsStay, PTL
  <1> QED
    BY <1>1, <1>4, <1>5, PTL DEF Spec, ImplementsInbox, Promise!Spec, Shown
=============================================================================

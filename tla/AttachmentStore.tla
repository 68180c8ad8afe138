-------------------------- MODULE AttachmentStore --------------------------
(***************************************************************************)
(* The deduplicating attachment store of Nimbus: the delivery transaction  *)
(* of the worker (worker/pipeline.py, worker/routing.py), the garbage      *)
(* collector's sweep (gc.py), the delete of one copy (routers/messages.py  *)
(* with the mailbox_message_deleted trigger), the Postgres rows they share *)
(* and the S3 objects the chunk rows stand for.                            *)
(*                                                                         *)
(* Postgres runs READ COMMITTED.  The table variables hold what is         *)
(* COMMITTED; a transaction keeps its uncommitted writes in tx[w] or gc[g] *)
(* and the commit merges them.  Row locks are read off those buffers, and  *)
(* a statement that would wait for a lock is not enabled.  S3 has no       *)
(* transactions: "object" changes at the call.                             *)
(*                                                                         *)
(* A blob or chunk is named by (reseller_id, hash) in the code; here one   *)
(* model value stands for the pair, and a message for one reseller's copy  *)
(* of one event.                                                           *)
(***************************************************************************)
EXTENDS Integers, Sequences, FiniteSets, FiniteSetsExt

CONSTANTS
    Workers, Sweepers,  \* processes: pipeline workers, running sweeps
    Msgs,               \* mail.received events (their event_key)
    Blobs, Chunks, Mailboxes,
    AttachmentsOf,      \* Msgs -> Seq(Blobs), in MIME order
    ChunksOf,           \* Blobs -> Seq(Chunks), the chunk map of dedup.py
    SizeOf,             \* Msgs -> size_bytes
    Reach,              \* Msgs -> the mailboxes its recipients can resolve to
    Grace,              \* gc.GRACE
    TxnBound,           \* assumed: no transaction stays open longer
    Batch,              \* gc.BATCH
    MaxFaults,          \* bound: failures injected in one behaviour
    CrashAfterS3,       \* may a sweep die between its S3 delete and its commit
    NULL

ASSUME StoreConstants ==
    /\ IsFiniteSet(Workers) /\ IsFiniteSet(Sweepers)
    /\ Workers \cap Sweepers = {}
    /\ IsFiniteSet(Msgs) /\ IsFiniteSet(Mailboxes) /\ IsFiniteSet(Chunks)
    /\ AttachmentsOf \in [Msgs -> Seq(Blobs)]
    /\ ChunksOf \in [Blobs -> Seq(Chunks)]
    /\ SizeOf \in [Msgs -> Nat]
    /\ Reach \in [Msgs -> SUBSET Mailboxes]
    /\ Grace \in Nat /\ TxnBound \in Nat /\ MaxFaults \in Nat
    /\ Batch \in Nat \ {0}
    /\ CrashAfterS3 \in BOOLEAN
    /\ NULL \notin Nat

VARIABLES
    processed,   \* processed_event keys
    message,     \* message rows
    attachment,  \* message_attachment rows <<m, b>>
    copy,        \* mailbox_message rows <<x, m>>
    blob,        \* blob rows; refcount and idle are their columns
    refcount,
    idle,        \* time since refcount_zeroed_at, NULL when that is NULL
    blobChunk,   \* blob_chunk rows <<b, seq>>
    chunk,       \* chunk rows; chunkRef is chunk.refcount
    chunkRef,
    used,        \* mailbox.used_bytes
    object,      \* chunk objects in the S3 bucket
    tx,          \* the workers' open transactions
    gc,          \* the sweeps
    faults       \* failures so far

tables == <<processed, message, attachment, copy, blob, refcount, idle,
            blobChunk, chunk, chunkRef, used>>
vars == <<tables, object, tx, gc, faults>>

-----------------------------------------------------------------------------
(* The two kinds of transaction.                                           *)

NoTx == [pc |-> "idle", msg |-> NULL, age |-> 0, next |-> 1, seq |-> 1,
         todo |-> {}, missing |-> {}, newChunk |-> {}, newBlob |-> {},
         newRow |-> {}, link |-> {}, to |-> {}]

NoSweep == [pc |-> "idle", age |-> NULL, msgs |-> {}, cand |-> {},
            blobs |-> {}, chunks |-> {}]

\* Time stops mattering once every comparison with Grace has been decided.
Horizon == Grace + TxnBound + 1
Older(t) == IF t = NULL \/ t = Horizon THEN t ELSE t + 1

AttBlobs(m) == {b \in Blobs : <<m, b>> \in attachment}
Blob(w)     == AttachmentsOf[tx[w].msg][tx[w].next]
ChunkAt(r)  == ChunksOf[r[1]][r[2]]

RowsOf(S)   == {r \in blobChunk : r[1] \in S}
Holders(rows, c) == {r \in rows : ChunkAt(r) = c}

\* What block C adds to chunk.refcount and phase 2 takes off it: one per
\* blob_chunk row, so a chunk listed twice counts twice.
\* Mutants: seq 0 is falsy and its row is not counted; one per blob.
RaisedByFalsySeq(rows, c) == Cardinality({r \in Holders(rows, c) : r[2] # 1})
Raised(rows, c) == Cardinality(Holders(rows, c))
LoweredByOne(S, c) == Cardinality({b \in S : Holders(RowsOf({b}), c) # {}})
Lowered(S, c)   == Cardinality(Holders(RowsOf(S), c))

\* The chunks of S that come first in b's chunk map: at most one.
FirstOf(b, S) ==
    {ChunksOf[b][i] : i \in {j \in DOMAIN ChunksOf[b] :
                        /\ ChunksOf[b][j] \in S
                        /\ \A k \in 1..(j-1) : ChunksOf[b][k] \notin S}}

\* The rows the foreign keys of blob_chunk and message_attachment name, as
\* worker w's transaction sees them.
\* Mutants: the schema without those keys.
NoBlobKey(w, b)   == TRUE
BlobExists(w, b)  == b \in blob \cup tx[w].newBlob
NoChunkKey(w, c)  == TRUE
ChunkExists(w, c) == c \in chunk \cup tx[w].newChunk

-----------------------------------------------------------------------------
(* Row locks, read off the open transactions.                              *)

\* Chunk rows a worker has raised, or a sweep has lowered: FOR NO KEY UPDATE.
RaisedChunks(w)  == {ChunkAt(r) : r \in tx[w].newRow}
LoweredChunks(g) ==
    IF gc[g].pc \in {"p2_delete", "p2_commit"}
    THEN {ChunkAt(r) : r \in RowsOf(gc[g].blobs)} ELSE {}

\* Rows a sweep has deleted and not committed.
GoneBlobs(g)  == IF gc[g].pc = "p2_commit" THEN gc[g].blobs ELSE {}
GoneChunks(g) == IF gc[g].pc \in {"p3_s3", "p3_commit"} THEN gc[g].chunks ELSE {}

\* Rows deliver() has updated.
Delivering(v, w) ==
    /\ tx[v].pc = "commit"
    /\ \/ tx[v].to \cap tx[w].to # {}
       \/ tx[v].to # {} /\ tx[v].link \cap tx[w].link # {}

\* A blob_chunk insert meets a committed row: ON CONFLICT DO NOTHING, no wait.
RowConflicts(w) ==
    /\ <<Blob(w), tx[w].seq>> \in blobChunk
    /\ \A g \in Sweepers : Blob(w) \notin GoneBlobs(g)

\* The processes whose locks the next statement of worker w waits for.
WorkerWaitsOn(w) ==
    LET t == tx[w] IN
    {v \in Workers \ {w} :
        \/ t.pc = "insert_chunks" /\ FirstOf(Blob(w), t.missing) \cap tx[v].newChunk # {}
        \/ t.pc = "insert_blob" /\ Blob(w) \in tx[v].newBlob
        \/ /\ t.pc = "insert_map" /\ ~RowConflicts(w)
           /\ ChunkAt(<<Blob(w), t.seq>>) \in RaisedChunks(v)
        \/ t.pc = "deliver" /\ Delivering(v, w)}
    \cup
    {g \in Sweepers :
        \/ t.pc = "insert_chunks" /\ FirstOf(Blob(w), t.missing) \cap GoneChunks(g) # {}
        \/ t.pc = "insert_blob" /\ Blob(w) \in GoneBlobs(g)
        \/ /\ t.pc = "insert_map" /\ ~RowConflicts(w)
           /\ \/ Blob(w) \in gc[g].blobs
              \/ ChunkAt(<<Blob(w), t.seq>>) \in gc[g].chunks \cup LoweredChunks(g)
        \/ t.pc = "link" /\ Blob(w) \in gc[g].blobs
        \/ t.pc = "deliver" /\ t.link \cap gc[g].blobs # {}}

\* The processes whose locks the next statement of sweep g waits for: the
\* decrement of phase 2 waits for the chunk rows, its delete's foreign-key
\* check for attachment rows another sweep is deleting.
SweepWaitsOn(g) ==
    {w \in Workers :
        /\ gc[g].pc = "p2_lower"
        /\ \E r \in RowsOf(gc[g].blobs) : ChunkAt(r) \in RaisedChunks(w)}
    \cup
    {h \in Sweepers \ {g} :
        \/ /\ gc[g].pc = "p2_lower"
           /\ \E r \in RowsOf(gc[g].blobs) : ChunkAt(r) \in LoweredChunks(h) \cup gc[h].chunks
        \/ /\ gc[g].pc = "p2_delete" /\ gc[h].pc = "p1_commit"
           /\ \E m \in gc[h].msgs : AttBlobs(m) \cap gc[g].blobs # {}}

WaitsOn(p) == IF p \in Workers THEN WorkerWaitsOn(p) ELSE SweepWaitsOn(p)

\* Postgres's deadlock detector: p waits, through others, for itself.
Deadlocked(p) ==
    \E S \in SUBSET (Workers \cup Sweepers) :
        /\ p \in S
        /\ \A q \in S : WaitsOn(q) \cap S # {} /\ \E o \in S : q \in WaitsOn(o)

-----------------------------------------------------------------------------
Init ==
    /\ processed = {} /\ message = {} /\ attachment = {} /\ copy = {}
    /\ blob = {} /\ refcount = [b \in Blobs |-> 0] /\ idle = [b \in Blobs |-> NULL]
    /\ blobChunk = {}
    /\ chunk = {} /\ chunkRef = [c \in Chunks |-> 0]
    /\ used = [x \in Mailboxes |-> 0]
    /\ object = {}
    /\ tx = [w \in Workers |-> NoTx]
    /\ gc = [g \in Sweepers |-> NoSweep]
    /\ faults = 0

-----------------------------------------------------------------------------
(* The delivery transaction: pipeline.process_event.                       *)

\* After the last attachment comes the fan-out.
AfterMessage(m)       == IF AttachmentsOf[m] = <<>> THEN "resolve" ELSE "known"
AfterAttachment(t)    == IF t.next = Len(AttachmentsOf[t.msg]) THEN "resolve" ELSE "known"
AfterMap(b, seq)      == IF seq = Len(ChunksOf[b]) THEN "link" ELSE "insert_map"
AfterUpload(todo)     == IF todo = {} THEN "insert_chunks" ELSE "upload"
AfterChunkRow(missing) == IF missing = {} THEN "insert_blob" ELSE "insert_chunks"

InTx(w, pc) ==
    /\ tx[w].pc = pc
    /\ WorkerWaitsOn(w) = {}
    /\ UNCHANGED <<tables, gc, faults>>

\* BEGIN, the replay guard's INSERT (it waits for a worker that holds the same
\* key uncommitted, and skips a committed one), then the raw mail is read and
\* the message row written, unless no recipient's domain is left: then the
\* message is dropped, and only the guard's row is committed.
\* Mutant: no replay guard.
NoReplayGuard(m) == TRUE
Fresh(m) == m \notin processed
Claim(w, m) ==
    /\ tx[w].pc = "idle"
    /\ Fresh(m)
    /\ \A v \in Workers : tx[v].pc = "idle" \/ tx[v].msg # m
    /\ \E pc \in {AfterMessage(m), "drop"} :
        tx' = [tx EXCEPT ![w] = [NoTx EXCEPT !.pc = pc, !.msg = m]]
    /\ UNCHANGED <<tables, object, gc, faults>>

\* _store_attachment: is the blob row there already?
ReadKnown(w) ==
    /\ InTx(w, "known")
    /\ tx' = [tx EXCEPT ![w].pc =
                IF BlobExists(w, Blob(w)) THEN "link" ELSE "read_chunks"]
    /\ UNCHANGED object

\* _store_new_blob: which chunk rows do we already hold?
ReadChunks(w) ==
    /\ InTx(w, "read_chunks")
    /\ LET absent == {ChunksOf[Blob(w)][i] : i \in DOMAIN ChunksOf[Blob(w)]}
                        \ (chunk \cup tx[w].newChunk)
       IN tx' = [tx EXCEPT ![w].todo = absent, ![w].missing = absent,
                           ![w].pc = IF absent = {} THEN "insert_blob" ELSE "upload"]
    /\ UNCHANGED object

\* storage.put_chunk, before any row is inserted.
Upload(w) ==
    /\ InTx(w, "upload")
    /\ \E c \in FirstOf(Blob(w), tx[w].todo) :
        /\ object' = object \cup {c}
        /\ tx' = [tx EXCEPT ![w].todo = @ \ {c},
                            ![w].pc = AfterUpload(tx[w].todo \ {c})]

\* INSERT INTO chunk ... ON CONFLICT DO NOTHING, refcount 0.
InsertChunk(w) ==
    /\ InTx(w, "insert_chunks")
    /\ \E c \in FirstOf(Blob(w), tx[w].missing) :
        tx' = [tx EXCEPT ![w].missing = @ \ {c},
                         ![w].newChunk = @ \cup ({c} \ chunk),
                         ![w].pc = AfterChunkRow(tx[w].missing \ {c})]
    /\ UNCHANGED object

\* INSERT INTO blob ... ON CONFLICT DO NOTHING, refcount 0.
InsertBlob(w) ==
    /\ InTx(w, "insert_blob")
    /\ tx' = [tx EXCEPT ![w].newBlob = @ \cup ({Blob(w)} \ blob), ![w].seq = 1,
                        ![w].pc = IF ChunksOf[Blob(w)] = <<>> THEN "link" ELSE "insert_map"]
    /\ UNCHANGED object

\* The transaction is over: after a failed statement it is rolled back, and the
\* worker retries.
RolledBack(w) == tx' = [tx EXCEPT ![w] = NoTx]

\* INSERT INTO blob_chunk ... ON CONFLICT DO NOTHING RETURNING; a row that was
\* really created raises its chunk.  Both of its foreign keys must hold.
InsertMap(w) ==
    /\ InTx(w, "insert_map")
    /\ LET b == Blob(w)
           r == <<b, tx[w].seq>>
       IN IF r \in blobChunk
          THEN tx' = [tx EXCEPT ![w].seq = @ + 1, ![w].pc = AfterMap(b, tx[w].seq)]
          ELSE IF BlobExists(w, b) /\ ChunkExists(w, ChunkAt(r))
          THEN tx' = [tx EXCEPT ![w].newRow = @ \cup {r}, ![w].seq = @ + 1,
                                ![w].pc = AfterMap(b, tx[w].seq)]
          ELSE RolledBack(w)
    /\ UNCHANGED object

\* INSERT INTO message_attachment: the foreign key's share lock on the blob.
Link(w) ==
    /\ InTx(w, "link")
    /\ IF BlobExists(w, Blob(w))
       THEN tx' = [tx EXCEPT ![w].link = @ \cup {Blob(w)}, ![w].next = @ + 1,
                             ![w].pc = AfterAttachment(tx[w])]
       ELSE RolledBack(w)
    /\ UNCHANGED object

\* routing.resolve: any subset of the mailboxes may still be routable.
\* Mutant: a redirect leads anywhere (no _only_ours).
Anywhere(m) == Mailboxes
Routable(m) == Reach[m]
Resolve(w) ==
    /\ InTx(w, "resolve")
    /\ \E to \in SUBSET Routable(tx[w].msg) :
        tx' = [tx EXCEPT ![w].to = to, ![w].pc = IF to = {} THEN "commit" ELSE "deliver"]
    /\ UNCHANGED object

\* routing.deliver: the statements that take the mailbox and blob rows' locks.
Deliver(w) ==
    /\ InTx(w, "deliver")
    /\ tx' = [tx EXCEPT ![w].pc = "commit"]
    /\ UNCHANGED object

\* What a delivery does to a blob's refcount_zeroed_at: in use again, and the
\* column's DEFAULT now() for a new row that nobody received.
\* Mutants: the clock is left running; the column has no default.
ClockLeftRunning(t, b) == IF b \in t.newBlob THEN t.age ELSE idle[b]
NoDefaultClock(t, b)   == IF b \in t.link /\ t.to # {} THEN NULL ELSE idle[b]
DeliveredClock(t, b) ==
    IF b \in t.link /\ t.to # {} THEN NULL
    ELSE IF b \in t.newBlob THEN t.age ELSE idle[b]

\* The mailboxes deliver() charges: the rows it created.
\* Mutant: every recipient.
ChargedRecipients(t) == Reach[t.msg]
Charged(t) == t.to

\* The worker's COMMIT makes everything above visible at once.
Commit(w) ==
    LET t == tx[w]
        n == Cardinality(t.to)
    IN
    /\ t.pc = "commit"
    /\ processed' = processed \cup {t.msg}
    /\ message' = message \cup {t.msg}
    /\ attachment' = attachment \cup {<<t.msg, b>> : b \in t.link}
    /\ copy' = copy \cup {<<x, t.msg>> : x \in t.to}
    /\ blob' = blob \cup t.newBlob
    /\ refcount' = [b \in Blobs |-> IF b \in t.link THEN refcount[b] + n ELSE refcount[b]]
    /\ idle' = [b \in Blobs |-> DeliveredClock(t, b)]
    /\ blobChunk' = blobChunk \cup t.newRow
    /\ chunk' = chunk \cup t.newChunk
    /\ chunkRef' = [c \in Chunks |-> chunkRef[c] + Raised(t.newRow, c)]
    /\ used' = [x \in Mailboxes |-> IF x \in Charged(t) THEN used[x] + SizeOf[t.msg] ELSE used[x]]
    /\ RolledBack(w)
    /\ UNCHANGED <<object, gc, faults>>

Drop(w) ==
    /\ tx[w].pc = "drop"
    /\ processed' = processed \cup {tx[w].msg}
    /\ RolledBack(w)
    /\ UNCHANGED <<message, attachment, copy, blob, refcount, idle, blobChunk, chunk,
                   chunkRef, used, object, gc, faults>>

\* A lost connection, an S3 error, a killed worker: nothing was committed.
Abort(w) ==
    /\ tx[w].pc # "idle" /\ faults < MaxFaults
    /\ faults' = faults + 1
    /\ RolledBack(w)
    /\ UNCHANGED <<tables, object, gc>>

\* The deadlock detector rolls one transaction of the cycle back.
WorkerVictim(w) ==
    /\ Deadlocked(w)
    /\ RolledBack(w)
    /\ UNCHANGED <<tables, object, gc, faults>>

-----------------------------------------------------------------------------
(* DELETE /v1/messages/{id}: one copy, and the row trigger that lowers the *)
(* counters.                                                               *)
DeleteCopy(x, m) ==
    /\ <<x, m>> \in copy
    /\ \A w \in Workers : tx[w].pc = "commit" /\ tx[w].to # {} =>
                            x \notin tx[w].to /\ tx[w].link \cap AttBlobs(m) = {}
    /\ \A g \in Sweepers : gc[g].blobs \cap AttBlobs(m) = {}
    /\ copy' = copy \ {<<x, m>>}
    /\ refcount' = [b \in Blobs |-> IF b \in AttBlobs(m) THEN refcount[b] - 1 ELSE refcount[b]]
    /\ idle' = [b \in Blobs |-> IF b \in AttBlobs(m)
                                THEN IF refcount[b] - 1 <= 0 THEN 0 ELSE NULL
                                ELSE idle[b]]
    /\ used' = [used EXCEPT ![x] = IF @ >= SizeOf[m] THEN @ - SizeOf[m] ELSE 0]
    /\ UNCHANGED <<processed, message, attachment, blob, blobChunk, chunk, chunkRef,
                   object, tx, gc, faults>>

-----------------------------------------------------------------------------
(* The sweep: gc.sweep.  Each phase loops over batches, one transaction    *)
(* per batch.  A phase's last, empty SELECT leaves its transaction open,   *)
(* so the next phase's now() is that transaction's start.                  *)

\* The first statement after a commit opens a transaction.
Open(g) == IF gc[g].age = NULL THEN 0 ELSE gc[g].age

\* LIMIT Batch ... FOR UPDATE SKIP LOCKED over the rows S.
Batches(S) == {B \in SUBSET S : Cardinality(B) <= Batch /\ (Cardinality(B) < Batch => B = S)}

InSweep(g, pc) == gc[g].pc = pc /\ SweepWaitsOn(g) = {}
Sweeping(g, new) ==
    /\ gc' = [gc EXCEPT ![g] = new]
    /\ UNCHANGED <<tables, object, tx, faults>>
\* COMMIT or ROLLBACK, and on to pc.
Closed(g, pc) == gc' = [gc EXCEPT ![g] = [NoSweep EXCEPT !.pc = pc]]

BeginSweep(g) ==
    /\ gc[g].pc = "idle"
    /\ Sweeping(g, [NoSweep EXCEPT !.pc = "p1"])

\* Phase 1: messages without a copy, read and locked, ...
\* Mutant: one mailbox without it is enough.
OrphanSomewhere(m) == \E x \in Mailboxes : <<x, m>> \notin copy
Orphan(m) == \A x \in Mailboxes : <<x, m>> \notin copy
LockOrphans(g) ==
    /\ InSweep(g, "p1")
    /\ \E B \in Batches({m \in message : Orphan(m) /\ \A h \in Sweepers : m \notin gc[h].msgs}) :
        Sweeping(g, [gc[g] EXCEPT !.age = Open(g), !.msgs = B,
                                  !.pc = IF B = {} THEN "p2" ELSE "p1_delete"])

\* ... deleted by a second statement that looks again, ...
DeleteOrphans(g) ==
    /\ InSweep(g, "p1_delete")
    /\ Sweeping(g, [gc[g] EXCEPT !.msgs = {m \in @ : Orphan(m)}, !.pc = "p1_commit"])

\* ... and committed; message_attachment and mailbox_message cascade.
CommitOrphans(g) ==
    /\ InSweep(g, "p1_commit")
    /\ message' = message \ gc[g].msgs
    /\ attachment' = {r \in attachment : r[1] \notin gc[g].msgs}
    /\ copy' = {r \in copy : r[2] \notin gc[g].msgs}
    /\ Closed(g, "p1")
    /\ UNCHANGED <<processed, blob, refcount, idle, blobChunk, chunk, chunkRef, used,
                   object, tx, faults>>

\* Phase 2 reads its candidates in the statement's snapshot ...
Expired(b, age) == idle[b] # NULL /\ idle[b] - age > Grace
SelectBlobs(g) ==
    /\ InSweep(g, "p2")
    /\ LET cand == {b \in blob : /\ refcount[b] = 0
                                 /\ Expired(b, Open(g))
                                 /\ \A m \in Msgs : <<m, b>> \notin attachment}
       IN Sweeping(g, [gc[g] EXCEPT !.age = Open(g), !.cand = cand,
                                    !.pc = IF cand = {} THEN "p3" ELSE "p2_lock"])

\* ... and locks them one by one.  A row changed since the snapshot has its own
\* columns checked again; the NOT EXISTS subquery keeps the old answer.
\* Mutants: the lock does not look at the row again, or not at its clock; a
\* sweep does not see another sweep's lock.
LockedBlindly(b, age) == TRUE
LockedAtZero(b, age) == refcount[b] = 0
StillGarbage(b, age) == refcount[b] = 0 /\ Expired(b, age)
LockedByWorker(b) == \E w \in Workers : b \in tx[w].link
BlobLocked(b) ==
    \/ \E w \in Workers : b \in tx[w].link
    \/ \E h \in Sweepers : b \in gc[h].blobs
LockBlobs(g) ==
    /\ InSweep(g, "p2_lock")
    /\ \E B \in Batches({b \in gc[g].cand \cap blob :
                            StillGarbage(b, gc[g].age) /\ ~BlobLocked(b)}) :
        Sweeping(g, [gc[g] EXCEPT !.cand = {}, !.blobs = B,
                                  !.pc = IF B = {} THEN "p3" ELSE "p2_lower"])

\* UPDATE chunk SET refcount = refcount - count(*).
LowerChunks(g) ==
    /\ InSweep(g, "p2_lower")
    /\ Sweeping(g, [gc[g] EXCEPT !.pc = "p2_delete"])

\* DELETE FROM blob WHERE refcount = 0.  A foreign key violation rolls the
\* batch back and ends the phase; a short count is a RuntimeError.
DeleteBlobs(g) ==
    /\ InSweep(g, "p2_delete")
    /\ LET gone == {b \in gc[g].blobs \cap blob : refcount[b] = 0}
       IN Sweeping(g,
            IF \E b \in gone : \E m \in Msgs : <<m, b>> \in attachment
            THEN [NoSweep EXCEPT !.pc = "p3"]
            ELSE IF gone # gc[g].blobs
            THEN [NoSweep EXCEPT !.pc = "raised"]
            ELSE [gc[g] EXCEPT !.pc = "p2_commit"])

CommitBlobs(g) ==
    LET gone == gc[g].blobs IN
    /\ InSweep(g, "p2_commit")
    /\ chunkRef' = [c \in Chunks |-> chunkRef[c] - Lowered(gone, c)]
    /\ blob' = blob \ gone
    /\ refcount' = [b \in Blobs |-> IF b \in gone THEN 0 ELSE refcount[b]]
    /\ idle' = [b \in Blobs |-> IF b \in gone THEN NULL ELSE idle[b]]
    /\ blobChunk' = blobChunk \ RowsOf(gone)
    /\ Closed(g, "p2")
    /\ UNCHANGED <<processed, message, attachment, copy, chunk, used, object, tx, faults>>

\* Phase 3: chunks nobody holds.
ChunkLocked(c) ==
    \/ \E w \in Workers : c \in RaisedChunks(w)
    \/ \E h \in Sweepers : c \in gc[h].chunks \cup LoweredChunks(h)
LockChunks(g) ==
    /\ InSweep(g, "p3")
    /\ \E B \in Batches({c \in chunk : chunkRef[c] = 0 /\ ~ChunkLocked(c)}) :
        Sweeping(g, IF B = {} THEN NoSweep
                    ELSE [gc[g] EXCEPT !.age = Open(g), !.chunks = B, !.pc = "p3_delete"])

\* DELETE FROM chunk WHERE refcount = 0 RETURNING s3_key.  Nothing catches a
\* foreign key violation here.
DeleteChunks(g) ==
    /\ InSweep(g, "p3_delete")
    /\ LET gone == {c \in gc[g].chunks \cap chunk : chunkRef[c] = 0}
       IN Sweeping(g,
            IF \E r \in blobChunk : ChunkAt(r) \in gone
            THEN [NoSweep EXCEPT !.pc = "raised"]
            ELSE IF gone = {} THEN NoSweep
            ELSE [gc[g] EXCEPT !.chunks = gone, !.pc = "p3_s3"])

\* storage.delete_chunks, inside the transaction.  S3 may refuse keys; the rows
\* go all the same.
DeleteObjects(g) ==
    /\ InSweep(g, "p3_s3")
    /\ \E refused \in SUBSET gc[g].chunks :
        /\ faults' = IF refused = {} THEN faults ELSE faults + 1
        /\ object' = object \ (gc[g].chunks \ refused)
    /\ faults' <= MaxFaults
    /\ gc' = [gc EXCEPT ![g].pc = "p3_commit"]
    /\ UNCHANGED <<tables, tx>>

CommitChunks(g) ==
    /\ InSweep(g, "p3_commit")
    /\ chunk' = chunk \ gc[g].chunks
    /\ chunkRef' = [c \in Chunks |-> IF c \in gc[g].chunks THEN 0 ELSE chunkRef[c]]
    /\ Closed(g, "p3")
    /\ UNCHANGED <<processed, message, attachment, copy, blob, refcount, idle, blobChunk,
                   used, object, tx, faults>>

\* The sweep dies and Postgres rolls its open transaction back.
CrashSweep(g) ==
    /\ gc[g].pc \notin {"idle", "raised"} /\ faults < MaxFaults
    /\ gc[g].pc = "p3_commit" => CrashAfterS3
    /\ faults' = faults + 1
    /\ Closed(g, "idle")
    /\ UNCHANGED <<tables, object, tx>>

SweepVictim(g) ==
    /\ Deadlocked(g)
    /\ Closed(g, "idle")
    /\ UNCHANGED <<tables, object, tx, faults>>

-----------------------------------------------------------------------------
\* Time passes.  TxnBound is the one timing assumption: an open transaction
\* ends before it is older than that.
Tick ==
    /\ \A w \in Workers : tx[w].pc # "idle" => tx[w].age < TxnBound
    /\ \A g \in Sweepers : gc[g].age # NULL => gc[g].age < TxnBound
    /\ idle' = [b \in Blobs |-> Older(idle[b])]
    /\ tx' = [w \in Workers |-> IF tx[w].pc = "idle" THEN tx[w]
                                ELSE [tx[w] EXCEPT !.age = @ + 1]]
    /\ gc' = [g \in Sweepers |-> IF gc[g].age = NULL THEN gc[g]
                                 ELSE [gc[g] EXCEPT !.age = @ + 1]]
    /\ UNCHANGED <<processed, message, attachment, copy, blob, refcount, blobChunk,
                   chunk, chunkRef, used, object, faults>>

Work(w) ==
    \/ \E m \in Msgs : Claim(w, m)
    \/ ReadKnown(w) \/ ReadChunks(w) \/ Upload(w) \/ InsertChunk(w) \/ InsertBlob(w)
    \/ InsertMap(w) \/ Link(w) \/ Resolve(w) \/ Deliver(w) \/ Commit(w) \/ Drop(w)

Sweep(g) ==
    \/ BeginSweep(g)
    \/ LockOrphans(g) \/ DeleteOrphans(g) \/ CommitOrphans(g)
    \/ SelectBlobs(g) \/ LockBlobs(g) \/ LowerChunks(g) \/ DeleteBlobs(g) \/ CommitBlobs(g)
    \/ LockChunks(g) \/ DeleteChunks(g) \/ DeleteObjects(g) \/ CommitChunks(g)

Next ==
    \/ \E w \in Workers : Work(w) \/ Abort(w) \/ WorkerVictim(w)
    \/ \E x \in Mailboxes, m \in Msgs : DeleteCopy(x, m)
    \/ \E g \in Sweepers : Sweep(g) \/ CrashSweep(g) \/ SweepVictim(g)
    \/ Tick

Spec == Init /\ [][Next]_vars

\* Workers retry until a message is done, the operator's schedule keeps running
\* sweeps, the deadlock detector always runs, time passes.  The statements that
\* wait for a row lock are strongly fair: Postgres serves a lock's queue in order,
\* so the waiting statement gets its turn when the lock is released.
Fairness ==
    /\ \A w \in Workers :
        /\ WF_vars(Work(w)) /\ WF_vars(WorkerVictim(w))
        /\ SF_vars(InsertChunk(w)) /\ SF_vars(InsertBlob(w)) /\ SF_vars(InsertMap(w))
        /\ SF_vars(Link(w)) /\ SF_vars(Deliver(w))
    /\ \A g \in Sweepers :
        /\ WF_vars(Sweep(g)) /\ WF_vars(SweepVictim(g))
        /\ SF_vars(LowerChunks(g)) /\ SF_vars(DeleteBlobs(g))
    /\ WF_vars(Tick)

FairSpec == Spec /\ Fairness

-----------------------------------------------------------------------------
(* Properties.                                                             *)

TxType ==
    [pc : {"idle", "known", "read_chunks", "upload", "insert_chunks", "insert_blob",
           "insert_map", "link", "resolve", "deliver", "commit", "drop"},
     msg : Msgs \cup {NULL}, age : Nat, next : Nat \ {0}, seq : Nat \ {0},
     todo : SUBSET Chunks, missing : SUBSET Chunks, newChunk : SUBSET Chunks,
     newBlob : SUBSET Blobs, newRow : SUBSET (Blobs \X (Nat \ {0})),
     link : SUBSET Blobs, to : SUBSET Mailboxes]

SweepType ==
    [pc : {"idle", "p1", "p1_delete", "p1_commit", "p2", "p2_lock", "p2_lower", "p2_delete",
           "p2_commit", "p3", "p3_delete", "p3_s3", "p3_commit", "raised"},
     age : Nat \cup {NULL}, msgs : SUBSET Msgs, cand : SUBSET Blobs,
     blobs : SUBSET Blobs, chunks : SUBSET Chunks]

\* Every variable has its type; a copy lies in a mailbox its message can reach.
TypeOK ==
    /\ processed \subseteq Msgs /\ message \subseteq Msgs
    /\ attachment \subseteq Msgs \X Blobs
    /\ copy \subseteq {k \in Mailboxes \X Msgs : k[1] \in Reach[k[2]]}
    /\ blob \subseteq Blobs
    /\ refcount \in [Blobs -> Int]
    /\ idle \in [Blobs -> Nat \cup {NULL}]
    /\ blobChunk \subseteq Blobs \X (Nat \ {0})
    /\ chunk \subseteq Chunks
    /\ chunkRef \in [Chunks -> Int]
    /\ used \in [Mailboxes -> Int]
    /\ object \subseteq Chunks
    /\ tx \in [Workers -> TxType]
    /\ \A w \in Workers : tx[w].pc # "idle" => /\ tx[w].msg \in Msgs
                                               /\ tx[w].to \subseteq Reach[tx[w].msg]
    /\ gc \in [Sweepers -> SweepType]
    /\ faults \in 0..MaxFaults

\* models.py / HLD 9.3: blob.refcount counts the mailbox copies of messages that
\* carry the blob, chunk.refcount counts blob_chunk rows.  Nobody recomputes
\* either: workers, user deletes and sweeps only add and subtract.
RefcountsExact ==
    /\ \A b \in blob : refcount[b] = Cardinality({k \in copy : <<k[2], b>> \in attachment})
    /\ \A c \in chunk : chunkRef[c] = Cardinality(Holders(blobChunk, c))

\* migration 9c3e5a1d7b42: refcount_zeroed_at is NULL exactly when refcount > 0.
ClockRunsIffGarbage == \A b \in blob : idle[b] = NULL <=> refcount[b] > 0

\* An attachment can be served when its blob row, its whole chunk map, the chunk
\* rows and the objects are there (download_attachment reads all four).
Served(b) ==
    /\ b \in blob
    /\ \A i \in DOMAIN ChunksOf[b] :
        <<b, i>> \in blobChunk /\ ChunksOf[b][i] \in chunk \cap object

\* Every attachment an inbox shows can be served, whatever sweeps and other
\* deliveries of the same bytes are doing.
EveryCopyIsServed ==
    \A k \in copy : \A i \in DOMAIN AttachmentsOf[k[2]] : Served(AttachmentsOf[k[2]][i])

\* _store_attachment trusts the blob row alone: a blob row, referenced or not,
\* must never outlive its chunk map, a chunk row or a chunk object.
BlobRowsAreComplete == \A b \in blob : Served(b)

\* gc.py: the RuntimeError of phase 2 and an uncaught foreign key error of
\* phase 3 are dead branches.
SweepNeverRaises == \A g \in Sweepers : gc[g].pc # "raised"

\* mailbox.used_bytes is the size of what the mailbox holds (HLD 11); the
\* trigger's GREATEST(0, ...) never hides a drift.
UsedBytesExact ==
    \A x \in Mailboxes : used[x] = MapThenSumSet(LAMBDA k : SizeOf[k[2]],
                                                 {k \in copy : k[1] = x})

\* gc.py phase 1: no step of a sweep takes a message out of an inbox, nor a
\* message row that some inbox shows.
SweepKeepsMail ==
    [][gc' # gc => /\ copy \subseteq copy'
                   /\ \A k \in copy : k[2] \in message']_vars

\* gc.py GRACE: a blob row goes only when the blob has had no copy for longer
\* than the grace period, also when it was delivered again and deleted again
\* between the sweep's SELECT and its lock.
GraceIsServed ==
    [][\A b \in blob \ blob' : idle[b] # NULL /\ idle[b] > Grace]_vars

\* What the store promises its users: Inbox, where "inbox" is the copies whose
\* attachments can all be served.  Sweeps, retries and dedup are invisible.
Promise == INSTANCE Inbox WITH
    done <- processed,
    inbox <- {k \in copy : \A i \in DOMAIN AttachmentsOf[k[2]] : Served(AttachmentsOf[k[2]][i])}
ImplementsInbox == Promise!Spec

\* A sweep frees what it should: an unreferenced blob row or chunk row is in the
\* end removed or referenced again.
GarbageIsReclaimed ==
    /\ \A b \in Blobs : (b \in blob /\ refcount[b] = 0) ~> (b \notin blob \/ refcount[b] > 0)
    /\ \A c \in Chunks : (c \in chunk /\ chunkRef[c] = 0) ~> (c \notin chunk \/ chunkRef[c] > 0)
=============================================================================

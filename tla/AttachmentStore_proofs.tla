----------------------- MODULE AttachmentStore_proofs -----------------------
(***************************************************************************)
(* Safety of AttachmentStore for any number of workers, sweeps, messages,  *)
(* blobs and chunks, any chunk map, any grace period and any fault: the    *)
(* database half of the store (row counters, clock, foreign keys, phases   *)
(* of the sweep) does not depend on time.  One inductive invariant, IInv,  *)
(* carries it; the quota, a sum, is proved over it by an induction on the  *)
(* set of copies.  What depends on the grace period, that every chunk row  *)
(* keeps its S3 object, is in AttachmentObjects_proofs.                    *)
(***************************************************************************)
EXTENDS AttachmentStore, FiniteSetTheorems, TLAPS

-----------------------------------------------------------------------------
(* The inductive invariant, one part per actor.  Delivery(w, t) is what    *)
(* holds of worker w while its transaction is t, Reclaiming(g, s) of sweep *)
(* g in state s, Stored of the committed rows alone.                       *)

AttachmentPcs == {"known", "read_chunks", "upload", "insert_chunks", "insert_blob",
                  "insert_map", "link"}

\* The program counter agrees with the cursors over attachments and chunk maps.
Cursors(t) ==
    /\ t \in TxType
    /\ t.pc # "idle" => t.msg \in Msgs /\ t.to \subseteq Reach[t.msg]
    /\ t.pc \in AttachmentPcs => t.next \in DOMAIN AttachmentsOf[t.msg]
    /\ t.pc = "insert_map" => t.seq \in DOMAIN ChunksOf[AttachmentsOf[t.msg][t.next]]
    /\ IsFiniteSet(t.newRow)

\* A blob row a transaction adds brings its whole chunk map, up to the cursor.
Mapped(t) ==
    /\ \A r \in t.newRow : /\ r[1] \in t.newBlob
                           /\ r[2] \in DOMAIN ChunksOf[r[1]]
                           /\ ChunkAt(r) \in chunk \cup t.newChunk
    /\ \A b \in t.newBlob : \A i \in DOMAIN ChunksOf[b] :
        \/ <<b, i>> \in t.newRow
        \/ /\ t.pc = "insert_map" /\ b = AttachmentsOf[t.msg][t.next]
           /\ i >= t.seq
    /\ t.pc \in AttachmentPcs \ {"known", "insert_map", "link"} =>
        AttachmentsOf[t.msg][t.next] \notin t.newBlob

\* No other open transaction works on its message, its new blobs or its rows.
Alone(w, t) ==
    /\ t.pc # "idle" => t.msg \notin processed
    /\ t.link \subseteq blob \cup t.newBlob
    /\ t.newBlob \cap blob = {}
    /\ \A v \in Workers \ {w} :
        /\ t.pc # "idle" /\ tx[v].pc # "idle" => tx[v].msg # t.msg
        /\ t.newBlob \cap tx[v].newBlob = {}
    /\ \A g \in Sweepers :
        /\ t.link \cap gc[g].blobs = {}
        /\ \A r \in t.newRow : ChunkAt(r) \notin gc[g].chunks

Delivery(w, t) == Cursors(t) /\ Mapped(t) /\ Alone(w, t)

Reclaiming(g, s) ==
    /\ s \in SweepType /\ s.pc # "raised"
    /\ s.msgs \subseteq processed
    /\ s.pc = "p1_commit" => \A k \in copy : k[2] \notin s.msgs
    /\ s.blobs \subseteq blob
    /\ \A b \in s.blobs : refcount[b] = 0
    /\ s.pc = "p2_commit" => \A a \in attachment : a[2] \notin s.blobs
    /\ \A h \in Sweepers \ {g} : s.blobs \cap gc[h].blobs = {}
    /\ s.pc \in {"p3_s3", "p3_commit"} => \A r \in blobChunk : ChunkAt(r) \notin s.chunks

RowTypes ==
    /\ processed \subseteq Msgs /\ message \subseteq Msgs
    /\ attachment \subseteq Msgs \X Blobs
    /\ copy \subseteq {k \in Mailboxes \X Msgs : k[1] \in Reach[k[2]]}
    /\ blob \subseteq Blobs
    /\ refcount \in [Blobs -> Int]
    /\ idle \in [Blobs -> Nat \cup {NULL}]
    /\ blobChunk \subseteq Blobs \X (Nat \ {0})
    /\ chunk \subseteq Chunks
    /\ chunkRef \in [Chunks -> Int]
    /\ used \in [Mailboxes -> Int]

\* The foreign keys, and the chunk map of every blob row.
Referenced ==
    /\ message \subseteq processed
    /\ \A a \in attachment : a[1] \in processed /\ a[2] \in blob
    /\ \A k \in copy : k[2] \in message
    /\ IsFiniteSet(blobChunk)
    /\ \A r \in blobChunk : /\ r[1] \in blob
                            /\ r[2] \in DOMAIN ChunksOf[r[1]]
                            /\ ChunkAt(r) \in chunk
    /\ \A b \in blob : \A i \in DOMAIN ChunksOf[b] : <<b, i>> \in blobChunk

CopiesOf(b) == {k \in copy : <<k[2], b>> \in attachment}

\* The counters, over every key: an absent row counts as zero.
Counted ==
    /\ \A b \in Blobs : refcount[b] = Cardinality(CopiesOf(b))
    /\ \A c \in Chunks : chunkRef[c] = Cardinality(Holders(blobChunk, c))
    /\ \A b \in blob : idle[b] = NULL <=> refcount[b] > 0

Stored == RowTypes /\ Referenced /\ Counted

IInv ==
    /\ Stored
    /\ tx \in [Workers -> TxType]
    /\ \A w \in Workers : Delivery(w, tx[w])
    /\ gc \in [Sweepers -> SweepType]
    /\ \A g \in Sweepers : Reclaiming(g, gc[g])
    /\ object \subseteq Chunks
    /\ faults \in 0..MaxFaults

-----------------------------------------------------------------------------
(* Steps of one transaction: the tables stay as they are.                  *)

\* A worker's step inside its transaction disturbs no other transaction.
LEMMA WorkerStep ==
    ASSUME IInv, NEW w \in Workers, UNCHANGED <<tables, gc>>,
           tx' = [tx EXCEPT ![w] = tx'[w]], Delivery(w, tx'[w]),
           object' \subseteq Chunks, faults' \in 0..MaxFaults
    PROVE  IInv'
  <1> USE DEF tables
  <1>1. Stored'
    BY DEF IInv, Stored, RowTypes, Referenced, Counted, CopiesOf, Holders, ChunkAt
  <1>2. tx' \in [Workers -> TxType]
    BY DEF IInv, Delivery, Cursors
  <1>3. ASSUME NEW v \in Workers
        PROVE  Delivery(v, tx[v])'
    <2>1. CASE v = w
      <3>1. Cursors(tx[v])'
        BY <2>1 DEF Delivery, Cursors
      <3>2. Mapped(tx[v])'
        BY <2>1 DEF Delivery, Mapped, ChunkAt
      <3>3. Alone(v, tx[v])'
        BY <2>1 DEF Delivery, Alone, IInv, ChunkAt
      <3> QED
        BY <3>1, <3>2, <3>3 DEF Delivery
    <2>2. CASE v # w
      <3>1. tx'[v] = tx[v] /\ Delivery(v, tx[v])
        BY <2>2 DEF IInv
      <3>2. Cursors(tx[v])'
        BY <3>1 DEF Delivery, Cursors
      <3>3. Mapped(tx[v])'
        BY <3>1 DEF Delivery, Mapped, ChunkAt
      <3>4. Alone(v, tx[v])'
        BY <3>1, <2>2 DEF Delivery, Alone, IInv, ChunkAt
      <3> QED
        BY <3>2, <3>3, <3>4 DEF Delivery
    <2> QED
      BY <2>1, <2>2
  <1>4. gc' \in [Sweepers -> SweepType]
    BY DEF IInv
  <1>5. \A g \in Sweepers : Reclaiming(g, gc[g])'
    BY DEF IInv, Reclaiming, ChunkAt
  <1> QED
    BY <1>1, <1>2, <1>3, <1>4, <1>5 DEF IInv

\* What the attachment steps know about the blob they are working on.
LEMMA AtAttachment ==
    ASSUME IInv, NEW w \in Workers, tx[w].pc \in AttachmentPcs
    PROVE  /\ tx[w] \in TxType /\ tx[w].msg \in Msgs
           /\ Blob(w) = AttachmentsOf[tx[w].msg][tx[w].next]
           /\ Blob(w) \in Blobs
           /\ tx[w].next \in 1..Len(AttachmentsOf[tx[w].msg])
           /\ AttachmentsOf[tx[w].msg] \in Seq(Blobs)
           /\ ChunksOf[Blob(w)] \in Seq(Chunks)
  BY StoreConstants DEF IInv, Delivery, Cursors, AttachmentPcs, Blob

\* One lemma per step of the delivery transaction: what worker w holds after the
\* step still satisfies Delivery.
LEMMA ReadKnownOK ==
    ASSUME IInv, NEW w \in Workers, ReadKnown(w)
    PROVE  /\ tx' = [tx EXCEPT ![w] = tx'[w]]
           /\ Delivery(w, tx'[w])
  <1>0. tx[w].pc = "known" /\ tx[w].pc \in AttachmentPcs
    BY DEF ReadKnown, InTx, AttachmentPcs
  <1>1. /\ tx \in [Workers -> TxType]
        /\ tx' = [tx EXCEPT ![w] = [tx[w] EXCEPT !.pc = IF BlobExists(w, Blob(w)) THEN "link" ELSE "read_chunks"]]
    BY DEF ReadKnown, IInv
  <1> DEFINE t == tx'[w]
  <1>2. Delivery(w, tx[w])
    BY DEF IInv
  <1>3. Cursors(t)
    BY <1>0, <1>1, <1>2, AtAttachment DEF Delivery, Cursors, TxType, AttachmentPcs
  <1>4. Mapped(t)
    BY <1>0, <1>1, <1>2, AtAttachment DEF Delivery, Mapped, TxType, AttachmentPcs, BlobExists
  <1>5. Alone(w, t)
    BY <1>0, <1>1, <1>2 DEF Delivery, Alone, TxType
  <1> QED
    BY <1>1, <1>3, <1>4, <1>5 DEF Delivery

\* The chunks found missing are chunks of the blob.
LEMMA ReadChunksOK ==
    ASSUME IInv, NEW w \in Workers, ReadChunks(w)
    PROVE  /\ tx' = [tx EXCEPT ![w] = tx'[w]]
           /\ Delivery(w, tx'[w])
  <1>0. tx[w].pc = "read_chunks" /\ tx[w].pc \in AttachmentPcs
    BY DEF ReadChunks, InTx, AttachmentPcs
  <1> DEFINE absent == {ChunksOf[Blob(w)][i] : i \in DOMAIN ChunksOf[Blob(w)]}
                          \ (chunk \cup tx[w].newChunk)
  <1>1. absent \subseteq Chunks
    BY <1>0, AtAttachment
  <1> DEFINE t == tx'[w]
  <1>2. /\ tx \in [Workers -> TxType]
        /\ tx' = [tx EXCEPT ![w] =
                    [tx[w] EXCEPT !.todo = absent, !.missing = absent,
                                  !.pc = IF absent = {} THEN "insert_blob" ELSE "upload"]]
    BY DEF ReadChunks, IInv
  <1>3. Delivery(w, tx[w])
    BY DEF IInv
  <1>4. Cursors(t)
    BY <1>0, <1>1, <1>2, <1>3, AtAttachment DEF Delivery, Cursors, TxType, AttachmentPcs
  <1>5. Mapped(t)
    BY <1>0, <1>2, <1>3, AtAttachment DEF Delivery, Mapped, TxType, AttachmentPcs
  <1>6. Alone(w, t)
    BY <1>0, <1>2, <1>3 DEF Delivery, Alone, TxType
  <1> QED
    BY <1>2, <1>4, <1>5, <1>6 DEF Delivery

\* An upload touches S3 and the cursor alone.
LEMMA UploadOK ==
    ASSUME IInv, NEW w \in Workers, Upload(w)
    PROVE  /\ tx' = [tx EXCEPT ![w] = tx'[w]]
           /\ Delivery(w, tx'[w])
           /\ object' \subseteq Chunks
  <1>0. tx[w].pc = "upload" /\ tx[w].pc \in AttachmentPcs
    BY DEF Upload, InTx, AttachmentPcs
  <1>1. PICK c \in FirstOf(Blob(w), tx[w].todo) :
            /\ object' = object \cup {c}
            /\ tx' = [tx EXCEPT ![w].todo = @ \ {c},
                                ![w].pc = AfterUpload(tx[w].todo \ {c})]
    BY DEF Upload
  <1>2. c \in Chunks
    BY <1>0, <1>1, AtAttachment DEF FirstOf
  <1> DEFINE t == tx'[w]
  <1>3. /\ tx \in [Workers -> TxType]
        /\ tx' = [tx EXCEPT ![w] =
                    [tx[w] EXCEPT !.todo = @ \ {c}, !.pc = AfterUpload(tx[w].todo \ {c})]]
    BY <1>1 DEF IInv
  <1>4. AfterUpload(tx[w].todo \ {c}) \in {"insert_chunks", "upload"}
    BY DEF AfterUpload
  <1>5. Delivery(w, tx[w])
    BY DEF IInv
  <1>6. Cursors(t)
    BY <1>0, <1>3, <1>4, <1>5, AtAttachment DEF Delivery, Cursors, TxType, AttachmentPcs
  <1>7. Mapped(t)
    BY <1>0, <1>3, <1>4, <1>5, AtAttachment DEF Delivery, Mapped, TxType, AttachmentPcs
  <1>8. Alone(w, t)
    BY <1>0, <1>3, <1>4, <1>5 DEF Delivery, Alone, TxType
  <1> QED
    BY <1>1, <1>2, <1>3, <1>6, <1>7, <1>8 DEF Delivery, IInv

\* A new chunk row is the transaction's own.
LEMMA InsertChunkOK ==
    ASSUME IInv, NEW w \in Workers, InsertChunk(w)
    PROVE  /\ tx' = [tx EXCEPT ![w] = tx'[w]]
           /\ Delivery(w, tx'[w])
  <1>0. tx[w].pc = "insert_chunks" /\ tx[w].pc \in AttachmentPcs
    BY DEF InsertChunk, InTx, AttachmentPcs
  <1>1. PICK c \in FirstOf(Blob(w), tx[w].missing) :
            tx' = [tx EXCEPT ![w].missing = @ \ {c},
                             ![w].newChunk = @ \cup ({c} \ chunk),
                             ![w].pc = AfterChunkRow(tx[w].missing \ {c})]
    BY DEF InsertChunk
  <1>2. c \in Chunks
    BY <1>0, <1>1, AtAttachment DEF FirstOf
  <1> DEFINE t == tx'[w]
  <1>3. /\ tx \in [Workers -> TxType]
        /\ tx' = [tx EXCEPT ![w] =
                    [tx[w] EXCEPT !.missing = @ \ {c}, !.newChunk = @ \cup ({c} \ chunk),
                                  !.pc = AfterChunkRow(tx[w].missing \ {c})]]
    BY <1>1 DEF IInv
  <1>4. AfterChunkRow(tx[w].missing \ {c}) \in {"insert_chunks", "insert_blob"}
    BY DEF AfterChunkRow
  <1>5. Delivery(w, tx[w])
    BY DEF IInv
  <1>6. Cursors(t)
    <2>0. /\ tx[w].newChunk \cup ({c} \ chunk) \in SUBSET Chunks
          /\ tx[w].missing \ {c} \in SUBSET Chunks
          /\ tx[w] \in TxType
      BY <1>0, <1>2, AtAttachment DEF TxType
    <2>1. t \in TxType
      BY <2>0, <1>3, <1>4 DEF TxType
    <2> QED
      BY <2>1, <1>0, <1>3, <1>4, <1>5, AtAttachment DEF Delivery, Cursors, AttachmentPcs
  <1>7. Mapped(t)
    BY <1>0, <1>3, <1>4, <1>5, AtAttachment DEF Delivery, Mapped, TxType, AttachmentPcs
  <1>8. Alone(w, t)
    BY <1>0, <1>3, <1>4, <1>5 DEF Delivery, Alone, TxType
  <1> QED
    BY <1>3, <1>6, <1>7, <1>8 DEF Delivery

\* A sequence that is not empty has a first and a last position.
LEMMA NonEmpty ==
    ASSUME NEW S, NEW s \in Seq(S), s # <<>>
    PROVE  1 \in DOMAIN s /\ Len(s) \in DOMAIN s
  OBVIOUS

\* A new blob row is nobody else's: the insert waited for the others.
LEMMA InsertBlobOK ==
    ASSUME IInv, NEW w \in Workers, InsertBlob(w)
    PROVE  /\ tx' = [tx EXCEPT ![w] = tx'[w]]
           /\ Delivery(w, tx'[w])
  <1>0. tx[w].pc = "insert_blob" /\ tx[w].pc \in AttachmentPcs
    BY DEF InsertBlob, InTx, AttachmentPcs
  <1> DEFINE pc == IF ChunksOf[Blob(w)] = <<>> THEN "link" ELSE "insert_map"
             t  == tx'[w]
  <1>1. /\ tx \in [Workers -> TxType]
        /\ tx' = [tx EXCEPT ![w] =
                    [tx[w] EXCEPT !.newBlob = @ \cup ({Blob(w)} \ blob), !.seq = 1,
                                  !.pc = pc]]
    BY DEF InsertBlob, IInv
  <1>2. Delivery(w, tx[w])
    BY DEF IInv
  <1>3. Cursors(t)
    <2>0. /\ tx[w].newBlob \cup ({Blob(w)} \ blob) \in SUBSET Blobs
          /\ tx[w] \in TxType
          /\ pc \in {"link", "insert_map"}
      BY <1>0, AtAttachment DEF TxType
    <2>1. t \in TxType
      <3> DEFINE first == 1
      <3>1. t = [tx[w] EXCEPT !.newBlob = @ \cup ({Blob(w)} \ blob), !.seq = first, !.pc = pc]
        BY <1>1
      <3>2. first \in Nat \ {0}
        OBVIOUS
      <3> HIDE DEF pc, first, t
      <3> QED
        BY <2>0, <3>1, <3>2 DEF TxType
    <2>2. pc = "insert_map" => 1 \in DOMAIN ChunksOf[Blob(w)]
      <3>1. ChunksOf[Blob(w)] \in Seq(Chunks)
        BY <1>0, AtAttachment
      <3>2. ChunksOf[Blob(w)] # <<>> => 1 \in DOMAIN ChunksOf[Blob(w)]
        BY <3>1, NonEmpty
      <3> QED
        BY <3>2
    <2>3. t.pc = pc /\ t.seq = 1 /\ t.msg = tx[w].msg /\ t.next = tx[w].next
            /\ t.to = tx[w].to /\ t.newRow = tx[w].newRow
      BY <1>1 DEF TxType
    <2> QED
      BY <2>1, <2>2, <2>3, <1>0, <1>2, AtAttachment DEF Delivery, Cursors, AttachmentPcs
  <1>4. Mapped(t)
    BY <1>0, <1>1, <1>2, AtAttachment DEF Delivery, Mapped, TxType, AttachmentPcs
  <1>5. \A v \in Workers \ {w} : Blob(w) \notin tx[v].newBlob
    BY <1>0 DEF InsertBlob, InTx, WorkerWaitsOn
  <1>6. Alone(w, t)
    BY <1>0, <1>1, <1>2, <1>5 DEF Delivery, Alone, TxType
  <1> QED
    BY <1>1, <1>3, <1>4, <1>6 DEF Delivery

\* A worker without a transaction is in nobody's way.
LEMMA NoTxOK == ASSUME NEW w \in Workers PROVE Delivery(w, NoTx)
  <1>1. Cursors(NoTx)
    BY FS_EmptySet DEF Cursors, NoTx, TxType, AttachmentPcs
  <1>2. Mapped(NoTx)
    BY DEF Mapped, NoTx, AttachmentPcs
  <1>3. Alone(w, NoTx)
    BY DEF Alone, NoTx
  <1> QED
    BY <1>1, <1>2, <1>3 DEF Delivery

\* A rollback leaves the worker without a transaction.
LEMMA RolledBackOK ==
    ASSUME IInv, NEW w \in Workers, RolledBack(w)
    PROVE  /\ tx' = [tx EXCEPT ![w] = tx'[w]]
           /\ Delivery(w, tx'[w])
  <1>1. tx'[w] = NoTx /\ tx' = [tx EXCEPT ![w] = tx'[w]]
    BY DEF RolledBack, IInv
  <1> QED
    BY <1>1, NoTxOK

\* A claimed message is fresh and nobody else's.
LEMMA ClaimOK ==
    ASSUME IInv, NEW w \in Workers, NEW m \in Msgs, Claim(w, m)
    PROVE  /\ tx' = [tx EXCEPT ![w] = tx'[w]]
           /\ Delivery(w, tx'[w])
  <1> DEFINE t == tx'[w]
  <1>1. PICK pc \in {AfterMessage(m), "drop"} :
            /\ t = [NoTx EXCEPT !.pc = pc, !.msg = m]
            /\ tx' = [tx EXCEPT ![w] = t]
    BY DEF Claim, IInv
  <1>2. pc \in {"resolve", "known", "drop"}
    BY DEF AfterMessage
  <1>3. /\ t.pc = pc /\ t.msg = m /\ t.next = 1 /\ t.newRow = {}
        /\ t.newBlob = {} /\ t.link = {} /\ t.to = {}
    BY <1>1 DEF NoTx
  <1>4. t \in TxType
    <2>1. NoTx \in TxType
      BY DEF NoTx, TxType
    <2> QED
      BY <1>1, <1>2, <2>1 DEF TxType
  <1>5. pc = "known" => 1 \in DOMAIN AttachmentsOf[m]
    <2>1. AttachmentsOf[m] \in Seq(Blobs)
      BY StoreConstants
    <2>2. AttachmentsOf[m] # <<>> => 1 \in DOMAIN AttachmentsOf[m]
      BY <2>1, NonEmpty
    <2> QED
      BY <2>2 DEF AfterMessage
  <1>6. Cursors(t)
    BY <1>2, <1>3, <1>4, <1>5, FS_EmptySet DEF Cursors, AttachmentPcs
  <1>7. Mapped(t)
    BY <1>2, <1>3 DEF Mapped, AttachmentPcs
  <1>8. m \notin processed /\ \A v \in Workers : tx[v].pc = "idle" \/ tx[v].msg # m
    BY DEF Claim, Fresh
  <1>9. Alone(w, t)
    BY <1>3, <1>8 DEF Alone
  <1> QED
    BY <1>1, <1>6, <1>7, <1>9 DEF Delivery

\* A linked blob row exists and no sweep has it locked.
LEMMA LinkOK ==
    ASSUME IInv, NEW w \in Workers, Link(w)
    PROVE  /\ tx' = [tx EXCEPT ![w] = tx'[w]]
           /\ Delivery(w, tx'[w])
  <1>0. tx[w].pc = "link" /\ tx[w].pc \in AttachmentPcs /\ WorkerWaitsOn(w) = {}
    BY DEF Link, InTx, AttachmentPcs
  <1>1. CASE ~BlobExists(w, Blob(w))
    BY <1>1, RolledBackOK DEF Link
  <1>2. CASE BlobExists(w, Blob(w))
    <2> DEFINE t == tx'[w]
               pc == AfterAttachment(tx[w])
               n == tx[w].next + 1
    <2>1. /\ tx \in [Workers -> TxType]
          /\ tx' = [tx EXCEPT ![w] = [tx[w] EXCEPT !.link = @ \cup {Blob(w)},
                                                   !.next = n, !.pc = pc]]
      BY <1>2 DEF Link, IInv
    <2>2. Delivery(w, tx[w])
      BY DEF IInv
    <2>3. /\ pc \in {"resolve", "known"}
          /\ n \in Nat \ {0}
          /\ pc = "known" => n \in DOMAIN AttachmentsOf[tx[w].msg]
      BY <1>0, AtAttachment DEF AfterAttachment, TxType
    <2>4. t \in TxType
      <3>1. tx[w].link \cup {Blob(w)} \in SUBSET Blobs /\ tx[w] \in TxType
        BY <1>0, AtAttachment DEF TxType
      <3>2. t = [tx[w] EXCEPT !.link = @ \cup {Blob(w)}, !.next = n, !.pc = pc]
        BY <2>1
      <3> HIDE DEF pc, n, t
      <3> QED
        BY <2>3, <3>1, <3>2 DEF TxType
    <2>5. /\ t.pc = pc /\ t.next = n /\ t.link = tx[w].link \cup {Blob(w)}
          /\ t.msg = tx[w].msg /\ t.to = tx[w].to /\ t.newRow = tx[w].newRow
          /\ t.newBlob = tx[w].newBlob /\ t.newChunk = tx[w].newChunk
      BY <2>1 DEF TxType
    <2> HIDE DEF t, pc, n
    <2>6. Cursors(t)
      BY <1>0, <2>2, <2>3, <2>4, <2>5 DEF Delivery, Cursors, AttachmentPcs
    <2>7. Mapped(t)
      BY <1>0, <2>2, <2>3, <2>5 DEF Delivery, Mapped, AttachmentPcs
    <2>8. \A g \in Sweepers : Blob(w) \notin gc[g].blobs
      BY <1>0 DEF WorkerWaitsOn
    <2>9. Alone(w, t)
      BY <1>0, <1>2, <2>2, <2>3, <2>5, <2>8 DEF Delivery, Alone, BlobExists
    <2> QED
      BY <2>1, <2>6, <2>7, <2>9 DEF Delivery, t
  <1> QED
    BY <1>1, <1>2

\* The recipients are reachable from the message.
LEMMA ResolveOK ==
    ASSUME IInv, NEW w \in Workers, Resolve(w)
    PROVE  /\ tx' = [tx EXCEPT ![w] = tx'[w]]
           /\ Delivery(w, tx'[w])
  <1>0. tx[w].pc = "resolve"
    BY DEF Resolve, InTx
  <1>1. PICK to \in SUBSET Reach[tx[w].msg] :
            tx' = [tx EXCEPT ![w].to = to,
                             ![w].pc = IF to = {} THEN "commit" ELSE "deliver"]
    BY DEF Resolve, Routable
  <1> DEFINE t == tx'[w]
             pc == IF to = {} THEN "commit" ELSE "deliver"
  <1>2. /\ tx \in [Workers -> TxType]
        /\ tx' = [tx EXCEPT ![w] = [tx[w] EXCEPT !.to = to, !.pc = pc]]
    BY <1>1 DEF IInv
  <1>3. Delivery(w, tx[w])
    BY DEF IInv
  <1>4. pc \in {"commit", "deliver"} /\ tx[w].msg \in Msgs /\ to \in SUBSET Mailboxes
    BY <1>0, <1>3, StoreConstants DEF Delivery, Cursors
  <1> HIDE DEF pc
  <1>5. Cursors(t)
    BY <1>0, <1>2, <1>3, <1>4 DEF Delivery, Cursors, TxType, AttachmentPcs
  <1>6. Mapped(t)
    BY <1>0, <1>2, <1>3, <1>4 DEF Delivery, Mapped, TxType, AttachmentPcs
  <1>7. Alone(w, t)
    BY <1>0, <1>2, <1>3, <1>4 DEF Delivery, Alone, TxType
  <1> QED
    BY <1>2, <1>5, <1>6, <1>7 DEF Delivery

\* Taking deliver()'s locks changes nothing else.
LEMMA DeliverOK ==
    ASSUME IInv, NEW w \in Workers, Deliver(w)
    PROVE  /\ tx' = [tx EXCEPT ![w] = tx'[w]]
           /\ Delivery(w, tx'[w])
  <1>0. tx[w].pc = "deliver"
    BY DEF Deliver, InTx
  <1>1. /\ tx \in [Workers -> TxType]
        /\ tx' = [tx EXCEPT ![w] = [tx[w] EXCEPT !.pc = "commit"]]
    BY DEF IInv, Deliver
  <1>2. Delivery(w, tx[w])
    BY DEF IInv
  <1>3. Cursors(tx'[w])
    BY <1>0, <1>1, <1>2 DEF Delivery, Cursors, TxType, AttachmentPcs
  <1>4. Mapped(tx'[w])
    BY <1>0, <1>1, <1>2 DEF Delivery, Mapped, TxType, AttachmentPcs
  <1>5. Alone(w, tx'[w])
    BY <1>0, <1>1, <1>2 DEF Delivery, Alone, TxType
  <1> QED
    BY <1>1, <1>3, <1>4, <1>5 DEF Delivery

\* A new map row belongs to a blob row of the same transaction, its chunk row is
\* there, and no sweep has that chunk locked.
LEMMA InsertMapOK ==
    ASSUME IInv, NEW w \in Workers, InsertMap(w)
    PROVE  /\ tx' = [tx EXCEPT ![w] = tx'[w]]
           /\ Delivery(w, tx'[w])
  <1> DEFINE b == Blob(w)
             r == <<b, tx[w].seq>>
             n == tx[w].seq + 1
             pc == AfterMap(b, tx[w].seq)
             t == tx'[w]
  <1>0. tx[w].pc = "insert_map" /\ tx[w].pc \in AttachmentPcs /\ WorkerWaitsOn(w) = {}
    BY DEF InsertMap, InTx, AttachmentPcs
  <1>1. Delivery(w, tx[w]) /\ tx \in [Workers -> TxType] /\ Referenced
    BY DEF IInv, Stored
  <1>2. /\ b \in Blobs /\ b = AttachmentsOf[tx[w].msg][tx[w].next]
        /\ ChunksOf[b] \in Seq(Chunks)
        /\ tx[w].seq \in 1..Len(ChunksOf[b])
    BY <1>0, <1>1, AtAttachment DEF Delivery, Cursors
  <1>3. /\ pc \in {"link", "insert_map"}
        /\ n \in Nat \ {0}
        /\ pc = "insert_map" => n \in DOMAIN ChunksOf[b]
        /\ pc = "link" => tx[w].seq = Len(ChunksOf[b])
    BY <1>2 DEF AfterMap
  <1>4. CASE r \in blobChunk
    <2>1. t = [tx[w] EXCEPT !.seq = n, !.pc = pc] /\ tx' = [tx EXCEPT ![w] = t]
      BY <1>1, <1>4 DEF InsertMap
    <2>2. t \in TxType
      <3>1. tx[w] \in TxType
        BY <1>1
      <3> HIDE DEF t, n, pc
      <3> QED
        BY <1>3, <2>1, <3>1 DEF TxType
    <2>3. /\ t.pc = pc /\ t.seq = n /\ t.msg = tx[w].msg /\ t.next = tx[w].next
          /\ t.to = tx[w].to /\ t.newRow = tx[w].newRow /\ t.link = tx[w].link
          /\ t.newBlob = tx[w].newBlob /\ t.newChunk = tx[w].newChunk
      BY <1>1, <2>1 DEF TxType
    <2>4. b \notin tx[w].newBlob
      BY <1>1, <1>4 DEF Referenced, Delivery, Alone
    <2> HIDE DEF t, n, pc, b
    <2>5. Cursors(t)
      BY <1>0, <1>1, <1>2, <1>3, <2>2, <2>3 DEF Delivery, Cursors, AttachmentPcs
    <2>6. Mapped(t)
      BY <1>0, <1>1, <1>2, <1>3, <2>3, <2>4 DEF Delivery, Mapped, AttachmentPcs
    <2>7. Alone(w, t)
      BY <1>0, <1>1, <1>3, <2>3 DEF Delivery, Alone
    <2> QED
      BY <2>1, <2>5, <2>6, <2>7 DEF Delivery, t
  <1>5. CASE r \notin blobChunk /\ BlobExists(w, b) /\ ChunkExists(w, ChunkAt(r))
    <2>1. /\ t = [tx[w] EXCEPT !.newRow = @ \cup {r}, !.seq = n, !.pc = pc]
          /\ tx' = [tx EXCEPT ![w] = t]
      BY <1>1, <1>5 DEF InsertMap
    <2>2. t \in TxType
      <3>1. tx[w] \in TxType
        BY <1>1
      <3>2. tx[w].newRow \cup {r} \in SUBSET (Blobs \X (Nat \ {0}))
        BY <1>2, <3>1 DEF TxType
      <3> HIDE DEF t, n, pc, r
      <3> QED
        BY <1>3, <2>1, <3>1, <3>2 DEF TxType
    <2>3. /\ t.pc = pc /\ t.seq = n /\ t.msg = tx[w].msg /\ t.next = tx[w].next
          /\ t.to = tx[w].to /\ t.newRow = tx[w].newRow \cup {r} /\ t.link = tx[w].link
          /\ t.newBlob = tx[w].newBlob /\ t.newChunk = tx[w].newChunk
      BY <1>1, <2>1 DEF TxType
    <2>4. b \in tx[w].newBlob
      BY <1>1, <1>2, <1>5 DEF Referenced, BlobExists
    <2>5. ChunkAt(r) \in chunk \cup tx[w].newChunk
      BY <1>5 DEF ChunkExists
    <2>6. \A g \in Sweepers : ChunkAt(r) \notin gc[g].chunks
      BY <1>0, <1>5 DEF WorkerWaitsOn, RowConflicts
    <2>7. IsFiniteSet(t.newRow)
      <3>1. IsFiniteSet(tx[w].newRow)
        BY <1>1 DEF Delivery, Cursors
      <3>2. IsFiniteSet(tx[w].newRow \cup {r})
        BY <3>1, FS_AddElement
      <3> QED
        BY <2>3, <3>2
    <2>8. Cursors(t)
      <3> HIDE DEF t, n, pc, r, b
      <3> QED
        BY <1>0, <1>1, <1>2, <1>3, <2>2, <2>3, <2>7 DEF Delivery, Cursors, AttachmentPcs
    <2>9. Mapped(t)
      <3>1. r[1] = b /\ r[2] = tx[w].seq
        OBVIOUS
      <3>2. ASSUME NEW d \in t.newBlob, NEW i \in DOMAIN ChunksOf[d]
            PROVE  \/ <<d, i>> \in t.newRow
                   \/ pc = "insert_map" /\ d = b /\ i >= n
        <4>1. CASE d = b
          <5>1. <<b, i>> \in tx[w].newRow \/ i >= tx[w].seq
            BY <1>1, <2>3, <4>1 DEF Delivery, Mapped
          <5>2. i \in 1..Len(ChunksOf[b])
            BY <1>2, <4>1
          <5>3. i = tx[w].seq \/ i >= n \/ <<b, i>> \in tx[w].newRow
            BY <1>2, <5>1, <5>2
          <5>4. i >= n => pc = "insert_map"
            BY <1>2, <1>3, <5>2
          <5> QED
            BY <2>3, <4>1, <5>3, <5>4
        <4>2. CASE d # b
          BY <1>1, <1>2, <2>3, <4>2 DEF Delivery, Mapped
        <4> QED
          BY <4>1, <4>2
      <3> HIDE DEF t, n, pc, r, b
      <3> QED
        BY <1>0, <1>1, <1>2, <1>3, <2>3, <2>4, <2>5, <3>1, <3>2
        DEF Delivery, Mapped, AttachmentPcs
    <2>10. Alone(w, t)
      <3> HIDE DEF t, n, pc, r, b
      <3> QED
        BY <1>0, <1>1, <1>3, <2>3, <2>6 DEF Delivery, Alone
    <2> QED
      BY <2>1, <2>8, <2>9, <2>10 DEF Delivery
  <1>6. CASE r \notin blobChunk /\ ~(BlobExists(w, b) /\ ChunkExists(w, ChunkAt(r)))
    BY <1>6, RolledBackOK DEF InsertMap
  <1> QED
    BY <1>4, <1>5, <1>6

\* The rows a sweep holds locks on are not the rows of an open delivery.
Free(s) ==
    \A w \in Workers : /\ tx[w].link \cap s.blobs = {}
                       /\ \A r \in tx[w].newRow : ChunkAt(r) \notin s.chunks

\* A sweep's step inside its transaction disturbs nobody else.
LEMMA SweepStep ==
    ASSUME IInv, NEW g \in Sweepers, UNCHANGED <<tables, tx>>,
           gc' = [gc EXCEPT ![g] = gc'[g]], Reclaiming(g, gc'[g]), Free(gc'[g]),
           object' \subseteq Chunks, faults' \in 0..MaxFaults
    PROVE  IInv'
  <1> USE DEF tables
  <1>1. Stored'
    BY DEF IInv, Stored, RowTypes, Referenced, Counted, CopiesOf, Holders, ChunkAt
  <1>2. tx' \in [Workers -> TxType]
    BY DEF IInv
  <1>3. ASSUME NEW v \in Workers
        PROVE  Delivery(v, tx[v])'
    <2>1. Delivery(v, tx[v]) /\ tx'[v] = tx[v]
      BY DEF IInv
    <2>2. Cursors(tx[v])'
      BY <2>1 DEF Delivery, Cursors
    <2>3. Mapped(tx[v])'
      BY <2>1 DEF Delivery, Mapped, ChunkAt
    <2>4. Alone(v, tx[v])'
      BY <2>1 DEF Delivery, Alone, IInv, Free, ChunkAt
    <2> QED
      BY <2>2, <2>3, <2>4 DEF Delivery
  <1>4. gc' \in [Sweepers -> SweepType]
    BY DEF IInv, Reclaiming
  <1>5. ASSUME NEW h \in Sweepers
        PROVE  Reclaiming(h, gc[h])'
    <2>1. CASE h = g
      BY <2>1 DEF Reclaiming, IInv, ChunkAt
    <2>2. CASE h # g
      BY <2>2 DEF Reclaiming, IInv, ChunkAt
    <2> QED
      BY <2>1, <2>2
  <1> QED
    BY <1>1, <1>2, <1>3, <1>4, <1>5 DEF IInv

\* A COMMIT or ROLLBACK drops every lock.
LEMMA ClosedOK ==
    ASSUME IInv, NEW g \in Sweepers, NEW pc \in {"idle", "p1", "p2", "p3"}, Closed(g, pc)
    PROVE  /\ gc' = [gc EXCEPT ![g] = gc'[g]]
           /\ gc'[g] = [NoSweep EXCEPT !.pc = pc]
           /\ Reclaiming(g, gc'[g])
           /\ Free(gc'[g])
  <1>1. /\ gc'[g] = [NoSweep EXCEPT !.pc = pc]
        /\ gc' = [gc EXCEPT ![g] = gc'[g]]
    BY DEF Closed, IInv
  <1>2. gc'[g] \in SweepType
    BY <1>1 DEF NoSweep, SweepType
  <1> QED
    BY <1>1, <1>2 DEF Reclaiming, Free, NoSweep

\* A step that takes no new locks and leaves the critical states alone.
LEMMA PlainSweep ==
    ASSUME IInv, NEW g \in Sweepers, NEW s, Sweeping(g, s), s \in SweepType,
           s.msgs \subseteq gc[g].msgs, s.blobs \subseteq gc[g].blobs,
           s.chunks \subseteq gc[g].chunks,
           s.pc \notin {"p1_commit", "p2_commit", "p3_s3", "p3_commit", "raised"}
    PROVE  IInv'
  <1>1. gc'[g] = s /\ gc' = [gc EXCEPT ![g] = gc'[g]]
    BY DEF Sweeping, IInv
  <1>2. Reclaiming(g, gc'[g])
    BY <1>1 DEF IInv, Reclaiming
  <1>3. Free(gc'[g])
    BY <1>1 DEF IInv, Delivery, Alone, Free
  <1>4. object' \subseteq Chunks /\ faults' \in 0..MaxFaults
    BY DEF Sweeping, IInv
  <1> QED
    BY <1>1, <1>2, <1>3, <1>4, SweepStep DEF Sweeping

\* What every step of sweep g starts from.
LEMMA OpenType ==
    ASSUME IInv, NEW g \in Sweepers
    PROVE  Open(g) \in Nat /\ gc[g] \in SweepType /\ Reclaiming(g, gc[g])
  BY DEF IInv, Open, SweepType

\* One lemma per step of the sweep.
LEMMA BeginSweepInv == ASSUME IInv, NEW g \in Sweepers, BeginSweep(g) PROVE IInv'
  <1> DEFINE s == [NoSweep EXCEPT !.pc = "p1"]
  <1>1. s \in SweepType
    BY DEF NoSweep, SweepType
  <1>2. s.msgs = {} /\ s.blobs = {} /\ s.chunks = {} /\ s.pc = "p1"
    BY DEF NoSweep
  <1>3. Sweeping(g, s)
    BY DEF BeginSweep
  <1> HIDE DEF s
  <1> QED
    BY <1>1, <1>2, <1>3, PlainSweep

\* Messages locked by phase 1 have been processed.
LEMMA LockOrphansInv == ASSUME IInv, NEW g \in Sweepers, LockOrphans(g) PROVE IInv'
  <1>1. PICK B \in SUBSET message :
            Sweeping(g, [gc[g] EXCEPT !.age = Open(g), !.msgs = B,
                                      !.pc = IF B = {} THEN "p2" ELSE "p1_delete"])
    BY DEF LockOrphans, Batches
  <1> DEFINE pc == IF B = {} THEN "p2" ELSE "p1_delete"
             s == [gc[g] EXCEPT !.age = Open(g), !.msgs = B, !.pc = pc]
  <1>2. pc \in {"p2", "p1_delete"} /\ Sweeping(g, s)
    BY <1>1
  <1> HIDE DEF pc
  <1>3. B \subseteq processed /\ B \in SUBSET Msgs
    BY DEF IInv, Stored, Referenced, RowTypes
  <1>4. s \in SweepType /\ s.pc = pc /\ s.msgs = B /\ s.blobs = gc[g].blobs
            /\ s.chunks = gc[g].chunks
    BY <1>2, <1>3, OpenType DEF SweepType
  <1> HIDE DEF s
  <1>5. gc'[g] = s /\ gc' = [gc EXCEPT ![g] = gc'[g]]
    BY <1>2 DEF Sweeping, IInv
  <1>6. Reclaiming(g, gc'[g])
    BY <1>2, <1>3, <1>4, <1>5, OpenType DEF Reclaiming
  <1>7. Free(gc'[g])
    BY <1>4, <1>5 DEF IInv, Delivery, Alone, Free
  <1>8. object' \subseteq Chunks /\ faults' \in 0..MaxFaults
    BY <1>2 DEF Sweeping, IInv
  <1> QED
    BY <1>2, <1>5, <1>6, <1>7, <1>8, SweepStep DEF Sweeping

\* The second statement looks again, so what it deletes has no copy.
LEMMA DeleteOrphansInv == ASSUME IInv, NEW g \in Sweepers, DeleteOrphans(g) PROVE IInv'
  <1> DEFINE gone == {m \in gc[g].msgs : Orphan(m)}
             s == [gc[g] EXCEPT !.msgs = gone, !.pc = "p1_commit"]
  <1>1. Sweeping(g, s)
    BY OpenType DEF DeleteOrphans, SweepType
  <1>2. s \in SweepType /\ s.pc = "p1_commit" /\ s.msgs = gone /\ s.blobs = gc[g].blobs
            /\ s.chunks = gc[g].chunks
    BY OpenType DEF SweepType
  <1>3. \A k \in copy : k[2] \notin gone
    BY DEF Orphan, IInv, Stored, RowTypes
  <1> HIDE DEF s
  <1>4. gc'[g] = s /\ gc' = [gc EXCEPT ![g] = gc'[g]]
    BY <1>1 DEF Sweeping, IInv
  <1>5. Reclaiming(g, gc'[g])
    BY <1>2, <1>3, <1>4, OpenType DEF Reclaiming
  <1>6. Free(gc'[g])
    BY <1>2, <1>4 DEF IInv, Delivery, Alone, Free
  <1>7. object' \subseteq Chunks /\ faults' \in 0..MaxFaults
    BY <1>1 DEF Sweeping, IInv
  <1> QED
    BY <1>1, <1>4, <1>5, <1>6, <1>7, SweepStep DEF Sweeping

\* The snapshot locks nothing.
LEMMA SelectBlobsInv == ASSUME IInv, NEW g \in Sweepers, SelectBlobs(g) PROVE IInv'
  <1>1. PICK cand \in SUBSET blob :
            Sweeping(g, [gc[g] EXCEPT !.age = Open(g), !.cand = cand,
                                      !.pc = IF cand = {} THEN "p3" ELSE "p2_lock"])
    BY DEF SelectBlobs
  <1> DEFINE pc == IF cand = {} THEN "p3" ELSE "p2_lock"
             s == [gc[g] EXCEPT !.age = Open(g), !.cand = cand, !.pc = pc]
  <1>2. pc \in {"p3", "p2_lock"} /\ Sweeping(g, s)
    BY <1>1
  <1> HIDE DEF pc
  <1>3. cand \in SUBSET Blobs
    BY DEF IInv, Stored, RowTypes
  <1>4. s \in SweepType /\ s.pc = pc /\ s.msgs = gc[g].msgs /\ s.blobs = gc[g].blobs
            /\ s.chunks = gc[g].chunks
    BY <1>2, <1>3, OpenType DEF SweepType
  <1> HIDE DEF s
  <1> QED
    BY <1>2, <1>4, PlainSweep

\* A locked blob has refcount 0 and is nobody else's.
LEMMA LockBlobsInv == ASSUME IInv, NEW g \in Sweepers, LockBlobs(g) PROVE IInv'
  <1>1. PICK B \in SUBSET {b \in gc[g].cand \cap blob :
                              StillGarbage(b, gc[g].age) /\ ~BlobLocked(b)} :
            Sweeping(g, [gc[g] EXCEPT !.cand = {}, !.blobs = B,
                                      !.pc = IF B = {} THEN "p3" ELSE "p2_lower"])
    BY DEF LockBlobs, Batches
  <1> DEFINE pc == IF B = {} THEN "p3" ELSE "p2_lower"
             s == [gc[g] EXCEPT !.cand = {}, !.blobs = B, !.pc = pc]
  <1>2. pc \in {"p3", "p2_lower"} /\ Sweeping(g, s)
    BY <1>1
  <1> HIDE DEF pc
  <1>3. /\ B \subseteq blob /\ B \in SUBSET Blobs
        /\ \A b \in B : refcount[b] = 0
        /\ \A h \in Sweepers : B \cap gc[h].blobs = {}
        /\ \A w \in Workers : tx[w].link \cap B = {}
    BY DEF IInv, Stored, RowTypes, StillGarbage, BlobLocked
  <1>4. s \in SweepType /\ s.pc = pc /\ s.msgs = gc[g].msgs /\ s.blobs = B
            /\ s.chunks = gc[g].chunks
    BY <1>2, <1>3, OpenType DEF SweepType
  <1> HIDE DEF s
  <1>5. gc'[g] = s /\ gc' = [gc EXCEPT ![g] = gc'[g]]
    BY <1>2 DEF Sweeping, IInv
  <1>6. Reclaiming(g, gc'[g])
    BY <1>2, <1>3, <1>4, <1>5, OpenType DEF Reclaiming
  <1>7. Free(gc'[g])
    BY <1>3, <1>4, <1>5 DEF IInv, Delivery, Alone, Free
  <1>8. object' \subseteq Chunks /\ faults' \in 0..MaxFaults
    BY <1>2 DEF Sweeping, IInv
  <1> QED
    BY <1>2, <1>5, <1>6, <1>7, <1>8, SweepStep DEF Sweeping

\* The decrement changes no lock.
LEMMA LowerChunksInv == ASSUME IInv, NEW g \in Sweepers, LowerChunks(g) PROVE IInv'
  <1> DEFINE s == [gc[g] EXCEPT !.pc = "p2_delete"]
  <1>1. Sweeping(g, s)
    BY DEF LowerChunks
  <1>2. s \in SweepType /\ s.pc = "p2_delete" /\ s.msgs = gc[g].msgs
            /\ s.blobs = gc[g].blobs /\ s.chunks = gc[g].chunks
    BY OpenType DEF SweepType
  <1> HIDE DEF s
  <1> QED
    BY <1>1, <1>2, PlainSweep

\* What is left of sweep g's locks: nothing.
LEMMA ClosedLocks ==
    ASSUME IInv, NEW g \in Sweepers, NEW pc \in {"idle", "p1", "p2", "p3"}, Closed(g, pc)
    PROVE  /\ gc' \in [Sweepers -> SweepType]
           /\ gc'[g].pc = pc /\ gc'[g].msgs = {} /\ gc'[g].blobs = {} /\ gc'[g].chunks = {}
           /\ \A h \in Sweepers : h # g => gc'[h] = gc[h]
  BY ClosedOK DEF NoSweep, IInv, Reclaiming

\* A rollback, and a loop's last commit, change no row.
LEMMA RollbackInv ==
    ASSUME IInv, NEW g \in Sweepers, NEW pc \in {"idle", "p1", "p2", "p3"}, Closed(g, pc),
           UNCHANGED <<tables, tx>>, object' \subseteq Chunks, faults' \in 0..MaxFaults
    PROVE  IInv'
  BY ClosedOK, SweepStep

\* Phase 2 deletes every blob it locked, or stops at a foreign key.
LEMMA DeleteBlobsInv == ASSUME IInv, NEW g \in Sweepers, DeleteBlobs(g) PROVE IInv'
  <1> DEFINE gone == {b \in gc[g].blobs \cap blob : refcount[b] = 0}
             s == [gc[g] EXCEPT !.pc = "p2_commit"]
  <1>1. gone = gc[g].blobs
    BY OpenType DEF Reclaiming
  <1>2. CASE \E b \in gone : \E m \in Msgs : <<m, b>> \in attachment
    <2>1. Sweeping(g, [NoSweep EXCEPT !.pc = "p3"])
      BY <1>2 DEF DeleteBlobs
    <2> QED
      BY <2>1, RollbackInv DEF Sweeping, Closed, IInv
  <1>3. CASE ~ \E b \in gone : \E m \in Msgs : <<m, b>> \in attachment
    <2>1. Sweeping(g, s)
      BY <1>1, <1>3 DEF DeleteBlobs
    <2>2. s \in SweepType /\ s.pc = "p2_commit" /\ s.msgs = gc[g].msgs
              /\ s.blobs = gc[g].blobs /\ s.chunks = gc[g].chunks
      BY OpenType DEF SweepType
    <2>3. \A a \in attachment : a[2] \notin gc[g].blobs
      BY <1>1, <1>3 DEF IInv, Stored, RowTypes
    <2> HIDE DEF s
    <2>4. gc'[g] = s /\ gc' = [gc EXCEPT ![g] = gc'[g]]
      BY <2>1 DEF Sweeping, IInv
    <2>5. Reclaiming(g, gc'[g])
      BY <2>2, <2>3, <2>4, OpenType DEF Reclaiming
    <2>6. Free(gc'[g])
      BY <2>2, <2>4 DEF IInv, Delivery, Alone, Free
    <2>7. object' \subseteq Chunks /\ faults' \in 0..MaxFaults
      BY <2>1 DEF Sweeping, IInv
    <2> QED
      BY <2>1, <2>4, <2>5, <2>6, <2>7, SweepStep DEF Sweeping
  <1> QED
    BY <1>2, <1>3

\* A locked chunk is not one an open delivery has raised.
LEMMA LockChunksInv == ASSUME IInv, NEW g \in Sweepers, LockChunks(g) PROVE IInv'
  <1>1. PICK B \in SUBSET {c \in chunk : chunkRef[c] = 0 /\ ~ChunkLocked(c)} :
            Sweeping(g, IF B = {} THEN NoSweep
                        ELSE [gc[g] EXCEPT !.age = Open(g), !.chunks = B, !.pc = "p3_delete"])
    BY DEF LockChunks, Batches
  <1>2. CASE B = {}
    <2>1. NoSweep = [NoSweep EXCEPT !.pc = "idle"]
      BY DEF NoSweep
    <2> QED
      BY <1>1, <1>2, <2>1, RollbackInv DEF Sweeping, Closed, IInv
  <1>3. CASE B # {}
    <2> DEFINE s == [gc[g] EXCEPT !.age = Open(g), !.chunks = B, !.pc = "p3_delete"]
    <2>1. Sweeping(g, s)
      BY <1>1, <1>3
    <2>2. B \in SUBSET Chunks
      BY DEF IInv, Stored, RowTypes
    <2>3. s \in SweepType /\ s.pc = "p3_delete" /\ s.msgs = gc[g].msgs
              /\ s.blobs = gc[g].blobs /\ s.chunks = B
      BY <2>2, OpenType DEF SweepType
    <2>4. \A w \in Workers : \A r \in tx[w].newRow : ChunkAt(r) \notin B
      BY DEF ChunkLocked, RaisedChunks
    <2> HIDE DEF s
    <2>5. gc'[g] = s /\ gc' = [gc EXCEPT ![g] = gc'[g]]
      BY <2>1 DEF Sweeping, IInv
    <2>6. Reclaiming(g, gc'[g])
      BY <2>3, <2>5, OpenType DEF Reclaiming
    <2>7. Free(gc'[g])
      BY <2>3, <2>4, <2>5 DEF IInv, Delivery, Alone, Free
    <2>8. object' \subseteq Chunks /\ faults' \in 0..MaxFaults
      BY <2>1 DEF Sweeping, IInv
    <2> QED
      BY <2>1, <2>5, <2>6, <2>7, <2>8, SweepStep DEF Sweeping
  <1> QED
    BY <1>2, <1>3

\* A chunk counted at zero has no blob_chunk row.
LEMMA Unheld ==
    ASSUME IInv, NEW c \in Chunks, chunkRef[c] = 0
    PROVE  \A r \in blobChunk : ChunkAt(r) # c
  <1>1. IsFiniteSet(Holders(blobChunk, c)) /\ Cardinality(Holders(blobChunk, c)) = 0
    BY FS_Subset DEF IInv, Stored, Referenced, Counted, Holders
  <1>2. Holders(blobChunk, c) = {}
    BY <1>1, FS_EmptySet
  <1> QED
    BY <1>2 DEF Holders

\* Phase 3 never meets a foreign key.
LEMMA DeleteChunksInv == ASSUME IInv, NEW g \in Sweepers, DeleteChunks(g) PROVE IInv'
  <1> DEFINE gone == {c \in gc[g].chunks \cap chunk : chunkRef[c] = 0}
             s == [gc[g] EXCEPT !.chunks = gone, !.pc = "p3_s3"]
  <1>1. gone \subseteq Chunks
    BY DEF IInv, Stored, RowTypes
  <1>2. \A r \in blobChunk : ChunkAt(r) \notin gone
    BY <1>1, Unheld
  <1>3. CASE gone = {}
    <2>1. NoSweep = [NoSweep EXCEPT !.pc = "idle"]
      BY DEF NoSweep
    <2>2. Sweeping(g, NoSweep)
      BY <1>2, <1>3 DEF DeleteChunks
    <2> QED
      BY <2>1, <2>2, RollbackInv DEF Sweeping, Closed, IInv
  <1>4. CASE gone # {}
    <2>1. Sweeping(g, s)
      BY <1>2, <1>4 DEF DeleteChunks
    <2>2. s \in SweepType /\ s.pc = "p3_s3" /\ s.msgs = gc[g].msgs
              /\ s.blobs = gc[g].blobs /\ s.chunks = gone
      BY <1>1, OpenType DEF SweepType
    <2> HIDE DEF s
    <2>3. gc'[g] = s /\ gc' = [gc EXCEPT ![g] = gc'[g]]
      BY <2>1 DEF Sweeping, IInv
    <2>4. Reclaiming(g, gc'[g])
      BY <1>2, <2>2, <2>3, OpenType DEF Reclaiming
    <2>5. Free(gc'[g])
      BY <2>2, <2>3 DEF IInv, Delivery, Alone, Free
    <2>6. object' \subseteq Chunks /\ faults' \in 0..MaxFaults
      BY <2>1 DEF Sweeping, IInv
    <2> QED
      BY <2>1, <2>3, <2>4, <2>5, <2>6, SweepStep DEF Sweeping
  <1> QED
    BY <1>3, <1>4

\* S3 is not a table.
LEMMA DeleteObjectsInv == ASSUME IInv, NEW g \in Sweepers, DeleteObjects(g) PROVE IInv'
  <1> DEFINE s == [gc[g] EXCEPT !.pc = "p3_commit"]
  <1>1. gc[g].pc = "p3_s3" /\ gc' = [gc EXCEPT ![g] = s] /\ UNCHANGED <<tables, tx>>
    BY DEF DeleteObjects, InSweep, IInv
  <1>2. object' \subseteq Chunks /\ faults' \in 0..MaxFaults
    <2>1. faults' <= MaxFaults /\ faults' \in {faults, faults + 1}
      BY DEF DeleteObjects
    <2>2. faults \in 0..MaxFaults /\ MaxFaults \in Nat
      BY StoreConstants DEF IInv
    <2>3. object' \subseteq Chunks
      BY DEF DeleteObjects, IInv
    <2> QED
      BY <2>1, <2>2, <2>3
  <1>3. s \in SweepType /\ s.pc = "p3_commit" /\ s.msgs = gc[g].msgs
            /\ s.blobs = gc[g].blobs /\ s.chunks = gc[g].chunks
    BY OpenType DEF SweepType
  <1> HIDE DEF s
  <1>4. gc'[g] = s /\ gc' = [gc EXCEPT ![g] = gc'[g]]
    BY <1>1 DEF IInv
  <1>5. Reclaiming(g, gc'[g])
    BY <1>1, <1>3, <1>4, OpenType DEF Reclaiming
  <1>6. Free(gc'[g])
    BY <1>3, <1>4 DEF IInv, Delivery, Alone, Free
  <1> QED
    BY <1>1, <1>2, <1>4, <1>5, <1>6, SweepStep

\* A crashed sweep, or one the deadlock detector picked, leaves no trace.
LEMMA SweepFailsInv ==
    ASSUME IInv, NEW g \in Sweepers, CrashSweep(g) \/ SweepVictim(g)
    PROVE  IInv'
  <1>1. Closed(g, "idle") /\ UNCHANGED <<tables, tx>> /\ object' = object
    BY DEF CrashSweep, SweepVictim
  <1>2. faults' \in 0..MaxFaults
    BY StoreConstants DEF CrashSweep, SweepVictim, IInv
  <1> QED
    BY <1>1, <1>2, RollbackInv DEF IInv

-----------------------------------------------------------------------------
(* Steps that change the tables.                                           *)

\* The messages phase 1 deletes have no copy, so no counter moves.
LEMMA CommitOrphansInv == ASSUME IInv, NEW g \in Sweepers, CommitOrphans(g) PROVE IInv'
  <1> DEFINE gone == gc[g].msgs
  <1>1. /\ gc[g].pc = "p1_commit" /\ Closed(g, "p1")
        /\ message' = message \ gone
        /\ attachment' = {r \in attachment : r[1] \notin gone}
        /\ copy' = {r \in copy : r[2] \notin gone}
        /\ UNCHANGED <<processed, blob, refcount, idle, blobChunk, chunk, chunkRef, used,
                       object, tx, faults>>
    BY DEF CommitOrphans, InSweep
  <1>2. \A k \in copy : k[2] \notin gone
    BY <1>1, OpenType DEF Reclaiming
  <1>3. copy' = copy
    BY <1>1, <1>2
  <1>4. /\ gc' \in [Sweepers -> SweepType]
        /\ gc'[g].pc = "p1" /\ gc'[g].msgs = {} /\ gc'[g].blobs = {} /\ gc'[g].chunks = {}
        /\ \A h \in Sweepers : h # g => gc'[h] = gc[h]
    BY <1>1, ClosedLocks
  <1>5. RowTypes' /\ Referenced'
    BY <1>1, <1>2, <1>3 DEF IInv, Stored, RowTypes, Referenced, ChunkAt
  <1>6. Counted'
    <2>1. ASSUME NEW b \in Blobs PROVE CopiesOf(b)' = CopiesOf(b)
      BY <1>1, <1>2, <1>3 DEF CopiesOf
    <2> QED
      BY <1>1, <2>1 DEF IInv, Stored, Counted, Holders, ChunkAt
  <1>7. ASSUME NEW v \in Workers PROVE Delivery(v, tx[v])'
    <2>1. Delivery(v, tx[v]) /\ tx'[v] = tx[v]
      BY <1>1 DEF IInv
    <2>2. Cursors(tx[v])' /\ Mapped(tx[v])'
      BY <1>1, <2>1 DEF Delivery, Cursors, Mapped, ChunkAt
    <2>3. Alone(v, tx[v])'
      BY <1>1, <1>4, <2>1 DEF Delivery, Alone, IInv, ChunkAt
    <2> QED
      BY <2>2, <2>3 DEF Delivery
  <1>8. ASSUME NEW h \in Sweepers PROVE Reclaiming(h, gc[h])'
    BY <1>1, <1>3, <1>4 DEF Reclaiming, IInv, ChunkAt
  <1>9. gc' \in [Sweepers -> SweepType]
    BY <1>4 DEF IInv
  <1> QED
    BY <1>1, <1>5, <1>6, <1>7, <1>8, <1>9 DEF IInv, Stored

\* The blobs phase 2 deletes give their chunks back exactly what they took.
LEMMA CommitBlobsInv == ASSUME IInv, NEW g \in Sweepers, CommitBlobs(g) PROVE IInv'
  <1> DEFINE gone == gc[g].blobs
  <1>1. /\ gc[g].pc = "p2_commit" /\ Closed(g, "p2")
        /\ chunkRef' = [c \in Chunks |-> chunkRef[c] - Lowered(gone, c)]
        /\ blob' = blob \ gone
        /\ refcount' = [b \in Blobs |-> IF b \in gone THEN 0 ELSE refcount[b]]
        /\ idle' = [b \in Blobs |-> IF b \in gone THEN NULL ELSE idle[b]]
        /\ blobChunk' = blobChunk \ RowsOf(gone)
        /\ UNCHANGED <<processed, message, attachment, copy, chunk, used, object, tx, faults>>
    BY DEF CommitBlobs, InSweep
  <1>2. /\ gone \subseteq blob /\ \A b \in gone : refcount[b] = 0
        /\ \A a \in attachment : a[2] \notin gone
        /\ \A h \in Sweepers \ {g} : gc[h].blobs \cap gone = {}
        /\ \A w \in Workers : tx[w].link \cap gone = {}
    BY <1>1, OpenType DEF Reclaiming, IInv, Delivery, Alone
  <1>3. /\ gc' \in [Sweepers -> SweepType]
        /\ gc'[g].pc = "p2" /\ gc'[g].msgs = {} /\ gc'[g].blobs = {} /\ gc'[g].chunks = {}
        /\ \A h \in Sweepers : h # g => gc'[h] = gc[h]
    BY <1>1, ClosedLocks
  <1>4. refcount' = refcount
    BY <1>1, <1>2 DEF IInv, Stored, RowTypes
  <1>5. /\ blobChunk' \subseteq blobChunk /\ IsFiniteSet(blobChunk')
        /\ \A r \in blobChunk : r \in blobChunk' <=> r[1] \notin gone
    BY <1>1, FS_Subset DEF RowsOf, IInv, Stored, Referenced
  <1>6. ASSUME NEW c \in Chunks
        PROVE  /\ Lowered(gone, c) \in Nat
               /\ Cardinality(Holders(blobChunk, c)') = Cardinality(Holders(blobChunk, c)) - Lowered(gone, c)
    <2> DEFINE S == Holders(blobChunk, c)
               T == Holders(RowsOf(gone), c)
    <2>1. IsFiniteSet(S) /\ T \subseteq S
      BY FS_Subset DEF Holders, RowsOf, IInv, Stored, Referenced
    <2>2. IsFiniteSet(T) /\ Cardinality(T) \in Nat /\ S \cap T = T
      BY <2>1, FS_Subset, FS_CardinalityType
    <2>3. S' = S \ T
      BY <1>1 DEF Holders, RowsOf, ChunkAt
    <2>4. Cardinality(S \ T) = Cardinality(S) - Cardinality(T)
      BY <2>1, <2>2, FS_Difference
    <2> QED
      BY <2>2, <2>3, <2>4 DEF Lowered
  <1>7. RowTypes'
    <2>1. idle' \in [Blobs -> Nat \cup {NULL}]
      BY <1>1 DEF IInv, Stored, RowTypes
    <2>2. chunkRef' \in [Chunks -> Int]
      BY <1>1, <1>6 DEF IInv, Stored, RowTypes
    <2> QED
      BY <1>1, <1>4, <1>5, <2>1, <2>2 DEF IInv, Stored, RowTypes
  <1>8. Referenced'
    BY <1>1, <1>2, <1>5 DEF IInv, Stored, RowTypes, Referenced, ChunkAt
  <1>9. Counted'
    <2>1. \A b \in Blobs : CopiesOf(b)' = CopiesOf(b)
      BY <1>1 DEF CopiesOf
    <2>2. \A c \in Chunks : chunkRef'[c] = Cardinality(Holders(blobChunk, c)')
      BY <1>1, <1>6 DEF IInv, Stored, Counted
    <2>3. \A b \in blob' : idle'[b] = NULL <=> refcount'[b] > 0
      BY <1>1, <1>4 DEF IInv, Stored, RowTypes, Counted
    <2> QED
      BY <1>4, <2>1, <2>2, <2>3 DEF IInv, Stored, Counted
  <1>10. ASSUME NEW v \in Workers PROVE Delivery(v, tx[v])'
    <2>1. Delivery(v, tx[v]) /\ tx'[v] = tx[v]
      BY <1>1 DEF IInv
    <2>2. Cursors(tx[v])' /\ Mapped(tx[v])'
      BY <1>1, <2>1 DEF Delivery, Cursors, Mapped, ChunkAt
    <2>3. Alone(v, tx[v])'
      BY <1>1, <1>2, <1>3, <2>1 DEF Delivery, Alone, IInv, ChunkAt
    <2> QED
      BY <2>2, <2>3 DEF Delivery
  <1>11. ASSUME NEW h \in Sweepers PROVE Reclaiming(h, gc[h])'
    BY <1>1, <1>2, <1>3, <1>4, <1>5 DEF Reclaiming, IInv, ChunkAt
  <1>12. gc' \in [Sweepers -> SweepType]
    BY <1>3 DEF IInv
  <1> QED
    BY <1>1, <1>7, <1>8, <1>9, <1>10, <1>11, <1>12 DEF IInv, Stored

\* The chunks phase 3 deletes are held by no blob and no open delivery.
LEMMA CommitChunksInv == ASSUME IInv, NEW g \in Sweepers, CommitChunks(g) PROVE IInv'
  <1> DEFINE gone == gc[g].chunks
  <1>1. /\ gc[g].pc = "p3_commit" /\ Closed(g, "p3")
        /\ chunk' = chunk \ gone
        /\ chunkRef' = [c \in Chunks |-> IF c \in gone THEN 0 ELSE chunkRef[c]]
        /\ UNCHANGED <<processed, message, attachment, copy, blob, refcount, idle, blobChunk,
                       used, object, tx, faults>>
    BY DEF CommitChunks, InSweep
  <1>2. /\ \A r \in blobChunk : ChunkAt(r) \notin gone
        /\ \A w \in Workers : \A r \in tx[w].newRow : ChunkAt(r) \notin gone
    BY <1>1, OpenType DEF Reclaiming, IInv, Delivery, Alone
  <1>3. /\ gc' \in [Sweepers -> SweepType]
        /\ gc'[g].pc = "p3" /\ gc'[g].msgs = {} /\ gc'[g].blobs = {} /\ gc'[g].chunks = {}
        /\ \A h \in Sweepers : h # g => gc'[h] = gc[h]
    BY <1>1, ClosedLocks
  <1>4. RowTypes'
    BY <1>1 DEF IInv, Stored, RowTypes
  <1>5. Referenced'
    BY <1>1, <1>2 DEF IInv, Stored, Referenced, ChunkAt
  <1>6. Counted'
    <2>1. \A b \in Blobs : CopiesOf(b)' = CopiesOf(b)
      BY <1>1 DEF CopiesOf
    <2>2. ASSUME NEW c \in Chunks
          PROVE  chunkRef'[c] = Cardinality(Holders(blobChunk, c)')
      <3>1. Holders(blobChunk, c)' = Holders(blobChunk, c)
        BY <1>1 DEF Holders, ChunkAt
      <3>2. c \in gone => Holders(blobChunk, c) = {}
        BY <1>2 DEF Holders
      <3> QED
        BY <1>1, <3>1, <3>2, FS_EmptySet DEF IInv, Stored, Counted
    <2> QED
      BY <1>1, <2>1, <2>2 DEF IInv, Stored, Counted
  <1>7. ASSUME NEW v \in Workers PROVE Delivery(v, tx[v])'
    <2>1. Delivery(v, tx[v]) /\ tx'[v] = tx[v]
      BY <1>1 DEF IInv
    <2>2. Cursors(tx[v])' /\ Mapped(tx[v])'
      BY <1>1, <1>2, <2>1 DEF Delivery, Cursors, Mapped, ChunkAt
    <2>3. Alone(v, tx[v])'
      BY <1>1, <1>3, <2>1 DEF Delivery, Alone, IInv, ChunkAt
    <2> QED
      BY <2>2, <2>3 DEF Delivery
  <1>8. ASSUME NEW h \in Sweepers PROVE Reclaiming(h, gc[h])'
    BY <1>1, <1>3 DEF Reclaiming, IInv, ChunkAt
  <1>9. gc' \in [Sweepers -> SweepType]
    BY <1>3 DEF IInv
  <1> QED
    BY <1>1, <1>4, <1>5, <1>6, <1>7, <1>8, <1>9 DEF IInv, Stored

\* Deleting one copy lowers each counter by exactly one.
LEMMA DeleteCopyInv ==
    ASSUME IInv, NEW x \in Mailboxes, NEW m \in Msgs, DeleteCopy(x, m)
    PROVE  IInv'
  <1>1. /\ <<x, m>> \in copy
        /\ \A g \in Sweepers : gc[g].blobs \cap AttBlobs(m) = {}
        /\ copy' = copy \ {<<x, m>>}
        /\ refcount' = [b \in Blobs |-> IF b \in AttBlobs(m) THEN refcount[b] - 1
                                        ELSE refcount[b]]
        /\ idle' = [b \in Blobs |-> IF b \in AttBlobs(m)
                                    THEN IF refcount[b] - 1 <= 0 THEN 0 ELSE NULL
                                    ELSE idle[b]]
        /\ used' = [used EXCEPT ![x] = IF @ >= SizeOf[m] THEN @ - SizeOf[m] ELSE 0]
        /\ UNCHANGED <<processed, message, attachment, blob, blobChunk, chunk, chunkRef,
                       object, tx, gc, faults>>
    BY DEF DeleteCopy
  <1>2. RowTypes
    BY DEF IInv, Stored
  <1>3. RowTypes'
    <2>1. used' \in [Mailboxes -> Int]
      BY <1>1, <1>2, StoreConstants DEF RowTypes
    <2>2. refcount' \in [Blobs -> Int] /\ idle' \in [Blobs -> Nat \cup {NULL}]
      BY <1>1, <1>2 DEF RowTypes
    <2> QED
      BY <1>1, <1>2, <2>1, <2>2 DEF RowTypes
  <1>4. Referenced'
    BY <1>1 DEF IInv, Stored, Referenced, ChunkAt
  <1>5. Counted'
    <2>1. ASSUME NEW b \in Blobs
          PROVE  refcount'[b] = Cardinality(CopiesOf(b)')
      <3>1. IsFiniteSet(CopiesOf(b))
        <4>1. IsFiniteSet(Mailboxes \X Msgs)
          BY StoreConstants, FS_Product
        <4> QED
          BY <1>2, <4>1, FS_Subset DEF RowTypes, CopiesOf
      <3>2. refcount[b] = Cardinality(CopiesOf(b))
        BY DEF IInv, Stored, Counted
      <3>3. CASE b \in AttBlobs(m)
        <4>1. CopiesOf(b)' = CopiesOf(b) \ {<<x, m>>} /\ <<x, m>> \in CopiesOf(b)
          BY <1>1, <3>3 DEF CopiesOf, AttBlobs
        <4>2. Cardinality(CopiesOf(b) \ {<<x, m>>}) = Cardinality(CopiesOf(b)) - 1
          BY <3>1, <4>1, FS_RemoveElement
        <4> QED
          BY <1>1, <3>2, <3>3, <4>1, <4>2
      <3>4. CASE b \notin AttBlobs(m)
        <4>1. CopiesOf(b)' = CopiesOf(b)
          BY <1>1, <3>4 DEF CopiesOf, AttBlobs
        <4> QED
          BY <1>1, <3>2, <3>4, <4>1
      <3> QED
        BY <3>3, <3>4
    <2>2. \A b \in blob' : idle'[b] = NULL <=> refcount'[b] > 0
      <3>1. ASSUME NEW b \in blob
            PROVE  idle'[b] = NULL <=> refcount'[b] > 0
        <4>1. b \in Blobs /\ refcount[b] \in Int /\ (idle[b] = NULL <=> refcount[b] > 0)
          BY <1>2 DEF RowTypes, IInv, Stored, Counted
        <4>2. NULL # 0
          BY StoreConstants
        <4> QED
          BY <1>1, <4>1, <4>2
      <3> QED
        BY <1>1, <3>1
    <2> QED
      BY <1>1, <2>1, <2>2 DEF IInv, Stored, Counted, Holders, ChunkAt
  <1>6. ASSUME NEW v \in Workers PROVE Delivery(v, tx[v])'
    <2>1. Delivery(v, tx[v])
      BY DEF IInv
    <2>2. Cursors(tx[v])' /\ Mapped(tx[v])'
      BY <1>1, <2>1 DEF Delivery, Cursors, Mapped, ChunkAt
    <2>3. Alone(v, tx[v])'
      BY <1>1, <2>1 DEF Delivery, Alone, ChunkAt
    <2> QED
      BY <2>2, <2>3 DEF Delivery
  <1>7. ASSUME NEW h \in Sweepers PROVE Reclaiming(h, gc[h])'
    <2>1. \A b \in gc[h].blobs : refcount'[b] = refcount[b]
      BY <1>1, <1>2 DEF RowTypes, IInv, Reclaiming
    <2> QED
      BY <1>1, <2>1 DEF Reclaiming, IInv, ChunkAt
  <1> QED
    BY <1>1, <1>3, <1>4, <1>5, <1>6, <1>7 DEF IInv, Stored

\* Time moves clocks, and no clock starts or stops.
LEMMA TickInv == ASSUME IInv, Tick PROVE IInv'
  <1>1. /\ idle' = [b \in Blobs |-> Older(idle[b])]
        /\ UNCHANGED <<processed, message, attachment, copy, blob, refcount, blobChunk,
                       chunk, chunkRef, used, object, faults>>
    BY DEF Tick
  <1>2. ASSUME NEW w \in Workers
        PROVE  /\ tx'[w] \in TxType
               /\ tx'[w].pc = tx[w].pc /\ tx'[w].msg = tx[w].msg /\ tx'[w].next = tx[w].next
               /\ tx'[w].seq = tx[w].seq /\ tx'[w].newChunk = tx[w].newChunk
               /\ tx'[w].newBlob = tx[w].newBlob /\ tx'[w].newRow = tx[w].newRow
               /\ tx'[w].link = tx[w].link /\ tx'[w].to = tx[w].to
    <2>1. tx[w] \in TxType
      BY DEF IInv
    <2>2. tx'[w] \in {tx[w], [tx[w] EXCEPT !.age = @ + 1]}
      BY DEF Tick
    <2> QED
      BY <2>1, <2>2 DEF TxType
  <1>3. ASSUME NEW g \in Sweepers
        PROVE  /\ gc'[g] \in SweepType
               /\ gc'[g].pc = gc[g].pc /\ gc'[g].msgs = gc[g].msgs
               /\ gc'[g].blobs = gc[g].blobs /\ gc'[g].chunks = gc[g].chunks
    <2>1. gc[g] \in SweepType
      BY DEF IInv
    <2>2. gc'[g] = gc[g] \/ (gc[g].age # NULL /\ gc'[g] = [gc[g] EXCEPT !.age = @ + 1])
      BY DEF Tick
    <2> QED
      BY <2>1, <2>2 DEF SweepType
  <1>4. tx' \in [Workers -> TxType] /\ gc' \in [Sweepers -> SweepType]
    BY <1>2, <1>3 DEF Tick
  <1>5. \A b \in Blobs : /\ idle'[b] \in Nat \cup {NULL}
                         /\ idle'[b] = NULL <=> idle[b] = NULL
    BY <1>1, StoreConstants DEF Older, IInv, Stored, RowTypes
  <1>6. RowTypes' /\ Referenced'
    BY <1>1, <1>5 DEF IInv, Stored, RowTypes, Referenced, ChunkAt
  <1>7. Counted'
    <2>1. \A b \in Blobs : CopiesOf(b)' = CopiesOf(b)
      BY <1>1 DEF CopiesOf
    <2>2. \A c \in Chunks : Holders(blobChunk, c)' = Holders(blobChunk, c)
      BY <1>1 DEF Holders, ChunkAt
    <2> QED
      BY <1>1, <1>5, <2>1, <2>2 DEF IInv, Stored, Counted, RowTypes
  <1>8. ASSUME NEW v \in Workers PROVE Delivery(v, tx[v])'
    <2>1. Delivery(v, tx[v])
      BY DEF IInv
    <2>2. Cursors(tx[v])'
      BY <1>2, <2>1 DEF Delivery, Cursors
    <2>3. Mapped(tx[v])'
      BY <1>1, <1>2, <2>1 DEF Delivery, Mapped, ChunkAt
    <2>4. Alone(v, tx[v])'
      BY <1>1, <1>2, <1>3, <2>1 DEF Delivery, Alone, ChunkAt
    <2> QED
      BY <2>2, <2>3, <2>4 DEF Delivery
  <1>9. ASSUME NEW h \in Sweepers PROVE Reclaiming(h, gc[h])'
    BY <1>1, <1>3 DEF Reclaiming, IInv, ChunkAt
  <1> QED
    BY <1>1, <1>4, <1>6, <1>7, <1>8, <1>9 DEF IInv, Stored

\* Delivering m to the mailboxes S writes one row per mailbox.
LEMMA FanOut ==
    ASSUME NEW S, IsFiniteSet(S), NEW m
    PROVE  /\ IsFiniteSet({<<x, m>> : x \in S})
           /\ Cardinality({<<x, m>> : x \in S}) = Cardinality(S)
  <1> DEFINE T == {<<x, m>> : x \in S}
             f == [x \in S |-> <<x, m>>]
  <1>1. f \in Bijection(S, T)
    BY DEF Bijection, Injection, Surjection, IsInjective
  <1>2. IsFiniteSet(T) /\ Cardinality(T) = Cardinality(S)
    <2>1. ExistsBijection(S, T)
      BY <1>1 DEF ExistsBijection
    <2> QED
      BY <2>1, FS_Bijection
  <1> QED
    BY <1>2

\* A delivery raises each counter by exactly the rows it writes.
LEMMA CommitInv == ASSUME IInv, NEW w \in Workers, Commit(w) PROVE IInv'
  <1> DEFINE t == tx[w]
             n == Cardinality(t.to)
             new == {<<x, t.msg>> : x \in t.to}
  <1>1. /\ t.pc = "commit"
        /\ processed' = processed \cup {t.msg}
        /\ message' = message \cup {t.msg}
        /\ attachment' = attachment \cup {<<t.msg, b>> : b \in t.link}
        /\ copy' = copy \cup new
        /\ blob' = blob \cup t.newBlob
        /\ refcount' = [b \in Blobs |-> IF b \in t.link THEN refcount[b] + n ELSE refcount[b]]
        /\ idle' = [b \in Blobs |-> DeliveredClock(t, b)]
        /\ blobChunk' = blobChunk \cup t.newRow
        /\ chunk' = chunk \cup t.newChunk
        /\ chunkRef' = [c \in Chunks |-> chunkRef[c] + Raised(t.newRow, c)]
        /\ used' = [x \in Mailboxes |-> IF x \in t.to THEN used[x] + SizeOf[t.msg] ELSE used[x]]
        /\ tx' = [tx EXCEPT ![w] = NoTx]
        /\ UNCHANGED <<object, gc, faults>>
    BY DEF Commit, RolledBack, Charged
  <1>2. RowTypes /\ Referenced /\ Counted
    BY DEF IInv, Stored
  <1>3. t \in TxType /\ Cursors(t) /\ Mapped(t) /\ Alone(w, t)
    BY DEF IInv, Delivery
  <1>4. /\ t.msg \in Msgs /\ t.msg \notin processed /\ SizeOf[t.msg] \in Nat
        /\ t.to \subseteq Reach[t.msg] /\ t.to \subseteq Mailboxes
        /\ t.link \subseteq Blobs /\ t.newBlob \subseteq Blobs /\ t.newChunk \subseteq Chunks
        /\ t.newRow \subseteq Blobs \X (Nat \ {0})
        /\ t.age \in Nat
    BY <1>1, <1>3, StoreConstants DEF Cursors, Alone, TxType
  <1>5. /\ IsFiniteSet(t.to) /\ n \in Nat /\ (n = 0 <=> t.to = {})
        /\ IsFiniteSet(new) /\ Cardinality(new) = n
    <2>1. IsFiniteSet(t.to)
      BY <1>4, StoreConstants, FS_Subset
    <2>2. n \in Nat /\ (n = 0 <=> t.to = {})
      BY <2>1, FS_CardinalityType, FS_EmptySet
    <2>3. IsFiniteSet(new) /\ Cardinality(new) = n
      BY <2>1, FanOut
    <2> QED
      BY <2>1, <2>2, <2>3
  <1>6. ASSUME NEW c \in Chunks
        PROVE  /\ Raised(t.newRow, c) \in Nat
               /\ Cardinality(Holders(blobChunk, c)') = Cardinality(Holders(blobChunk, c)) + Raised(t.newRow, c)
    <2> DEFINE S == Holders(blobChunk, c)
               T == Holders(t.newRow, c)
    <2>1. IsFiniteSet(S) /\ IsFiniteSet(T)
      BY <1>2, <1>3, FS_Subset DEF Holders, Referenced, Cursors
    <2>2. S \cap T = {}
      BY <1>2, <1>3 DEF Holders, Referenced, Mapped, Alone
    <2>3. S' = S \cup T
      BY <1>1 DEF Holders, ChunkAt
    <2>4. Cardinality(S) \in Nat /\ Cardinality(T) \in Nat /\ Cardinality({}) = 0
      BY <2>1, FS_CardinalityType, FS_EmptySet
    <2>5. Cardinality(S \cup T) = Cardinality(S) + Cardinality(T) - Cardinality(S \cap T)
      BY <2>1, FS_Union
    <2>6. Cardinality(S \cup T) = Cardinality(S) + Cardinality(T)
      <3>1. Cardinality(S \cap T) = 0
        BY <2>2, <2>4
      <3> HIDE DEF S, T
      <3> QED
        BY <2>4, <2>5, <3>1
    <2> QED
      BY <2>3, <2>4, <2>6 DEF Raised
  <1>7. ASSUME NEW b \in Blobs
        PROVE  /\ refcount[b] \in Nat
               /\ refcount'[b] = IF b \in t.link THEN refcount[b] + n ELSE refcount[b]
               /\ refcount'[b] = Cardinality(CopiesOf(b)')
    <2>1. IsFiniteSet(CopiesOf(b))
      <3>1. IsFiniteSet(Mailboxes \X Msgs)
        BY StoreConstants, FS_Product
      <3> QED
        BY <1>2, <3>1, FS_Subset DEF RowTypes, CopiesOf
    <2>2. refcount[b] = Cardinality(CopiesOf(b)) /\ refcount[b] \in Nat
      BY <1>2, <2>1, FS_CardinalityType DEF Counted
    <2>3. CASE b \in t.link
      <3>1. CopiesOf(b)' = CopiesOf(b) \cup new
        BY <1>1, <1>2, <1>4, <2>3 DEF CopiesOf, Referenced, RowTypes
      <3>2. CopiesOf(b) \cap new = {}
        BY <1>2, <1>4 DEF CopiesOf, Referenced
      <3>3. Cardinality(CopiesOf(b) \cup new)
              = Cardinality(CopiesOf(b)) + Cardinality(new) - Cardinality(CopiesOf(b) \cap new)
        BY <1>5, <2>1, FS_Union
      <3>4. Cardinality(CopiesOf(b) \cup new) = refcount[b] + n
        <4>1. Cardinality(CopiesOf(b) \cap new) = 0
          BY <3>2, FS_EmptySet
        <4> HIDE DEF new, n
        <4> QED
          BY <1>5, <2>2, <3>3, <4>1
      <3> QED
        BY <1>1, <2>2, <2>3, <3>1, <3>4
    <2>4. CASE b \notin t.link
      <3>1. CopiesOf(b)' = CopiesOf(b)
        BY <1>1, <1>2, <1>4, <2>4 DEF CopiesOf, Referenced, RowTypes
      <3> QED
        BY <1>1, <2>2, <2>4, <3>1
    <2> QED
      BY <2>3, <2>4
  <1>8. RowTypes'
    <2>1. copy' \subseteq {k \in Mailboxes \X Msgs : k[1] \in Reach[k[2]]}
      BY <1>1, <1>2, <1>4 DEF RowTypes
    <2>2. refcount' \in [Blobs -> Int]
      BY <1>1, <1>5, <1>7
    <2>3. idle' \in [Blobs -> Nat \cup {NULL}]
      BY <1>1, <1>2, <1>4 DEF RowTypes, DeliveredClock
    <2>4. chunkRef' \in [Chunks -> Int]
      BY <1>1, <1>2, <1>6 DEF RowTypes
    <2>5. used' \in [Mailboxes -> Int]
      BY <1>1, <1>2, <1>4 DEF RowTypes
    <2>6. /\ processed' \subseteq Msgs /\ message' \subseteq Msgs
          /\ attachment' \subseteq Msgs \X Blobs
      BY <1>1, <1>2, <1>4 DEF RowTypes
    <2>7. blob' \subseteq Blobs /\ blobChunk' \subseteq Blobs \X (Nat \ {0}) /\ chunk' \subseteq Chunks
      BY <1>1, <1>2, <1>4 DEF RowTypes
    <2> QED
      BY <2>1, <2>2, <2>3, <2>4, <2>5, <2>6, <2>7 DEF RowTypes
  <1>9. Referenced'
    <2>1. /\ message' \subseteq processed'
          /\ \A a \in attachment' : a[1] \in processed' /\ a[2] \in blob'
          /\ \A k \in copy' : k[2] \in message'
      BY <1>1, <1>2, <1>3 DEF Referenced, Alone
    <2>2. IsFiniteSet(blobChunk')
      BY <1>1, <1>2, <1>3, FS_Union DEF Referenced, Cursors
    <2>3. \A r \in blobChunk' : /\ r[1] \in blob'
                                /\ r[2] \in DOMAIN ChunksOf[r[1]]
                                /\ ChunkAt(r) \in chunk'
      BY <1>1, <1>2, <1>3 DEF Referenced, Mapped
    <2>4. \A b \in blob' : \A i \in DOMAIN ChunksOf[b] : <<b, i>> \in blobChunk'
      BY <1>1, <1>2, <1>3 DEF Referenced, Mapped
    <2> QED
      BY <2>1, <2>2, <2>3, <2>4 DEF Referenced, ChunkAt
  <1>10. Counted'
    <2>1. ASSUME NEW b \in blob'
          PROVE  idle'[b] = NULL <=> refcount'[b] > 0
      <3>1. b \in Blobs /\ idle'[b] = DeliveredClock(t, b)
        BY <1>1, <1>8 DEF RowTypes
      <3>2. NULL \notin Nat
        BY StoreConstants
      <3>3. CASE b \in t.link /\ t.to # {}
        BY <1>5, <1>7, <3>1, <3>3 DEF DeliveredClock
      <3>4. CASE ~(b \in t.link /\ t.to # {})
        <4>1. refcount'[b] = refcount[b] /\ refcount[b] \in Nat
          BY <1>5, <1>7, <3>1, <3>4
        <4>2. CASE b \in t.newBlob
          <5>1. b \notin blob
            BY <1>3, <4>2 DEF Alone
          <5>2. CopiesOf(b) = {}
            BY <1>2, <5>1 DEF CopiesOf, Referenced
          <5>3. refcount[b] = 0
            BY <1>2, <3>1, <5>2, FS_EmptySet DEF Counted
          <5> QED
            BY <1>4, <3>1, <3>2, <3>4, <4>1, <4>2, <5>3 DEF DeliveredClock
        <4>3. CASE b \notin t.newBlob
          BY <1>1, <1>2, <3>1, <3>4, <4>1, <4>3 DEF DeliveredClock, Counted
        <4> QED
          BY <4>2, <4>3
      <3> QED
        BY <3>3, <3>4
    <2>2. \A c \in Chunks : chunkRef'[c] = Cardinality(Holders(blobChunk, c)')
      BY <1>1, <1>2, <1>6 DEF Counted
    <2> QED
      BY <1>7, <2>1, <2>2 DEF Counted
  <1>11. tx' \in [Workers -> TxType] /\ tx'[w] = NoTx /\ \A v \in Workers \ {w} : tx'[v] = tx[v]
    BY <1>1, RolledBackOK DEF IInv, RolledBack, Delivery, Cursors
  <1>12. ASSUME NEW v \in Workers PROVE Delivery(v, tx[v])'
    <2>1. CASE v = w
      BY <1>11, <2>1, FS_EmptySet
      DEF Delivery, Cursors, Mapped, Alone, NoTx, TxType, AttachmentPcs
    <2>2. CASE v # w
      <3>1. Delivery(v, tx[v]) /\ tx'[v] = tx[v]
        BY <1>11, <2>2 DEF IInv
      <3>2. Cursors(tx[v])'
        BY <3>1 DEF Delivery, Cursors
      <3>3. Mapped(tx[v])'
        BY <1>1, <3>1 DEF Delivery, Mapped, ChunkAt
      <3>4. Alone(v, tx[v])'
        BY <1>1, <1>3, <1>11, <2>2, <3>1 DEF Delivery, Alone, ChunkAt, NoTx
      <3> QED
        BY <3>2, <3>3, <3>4 DEF Delivery
    <2> QED
      BY <2>1, <2>2
  <1>13. ASSUME NEW h \in Sweepers PROVE Reclaiming(h, gc[h])'
    <2>1. Reclaiming(h, gc[h]) /\ gc' = gc /\ gc[h].blobs \subseteq Blobs
      BY <1>1, <1>2 DEF IInv, Reclaiming, RowTypes
    <2>2. \A b \in gc[h].blobs : b \notin t.link /\ refcount'[b] = refcount[b]
      BY <1>3, <1>7, <2>1 DEF Alone
    <2>3. \A r \in t.newRow : ChunkAt(r) \notin gc[h].chunks
      BY <1>3 DEF Alone
    <2>4. /\ gc[h].msgs \subseteq processed'
          /\ gc[h].pc = "p1_commit" => \A k \in copy' : k[2] \notin gc[h].msgs
      BY <1>1, <1>4, <2>1 DEF Reclaiming
    <2>5. /\ gc[h].blobs \subseteq blob' /\ \A b \in gc[h].blobs : refcount'[b] = 0
          /\ gc[h].pc = "p2_commit" => \A a \in attachment' : a[2] \notin gc[h].blobs
      BY <1>1, <2>1, <2>2 DEF Reclaiming
    <2>6. gc[h].pc \in {"p3_s3", "p3_commit"} => \A r \in blobChunk' : ChunkAt(r) \notin gc[h].chunks
      BY <1>1, <2>1, <2>3 DEF Reclaiming
    <2> QED
      BY <2>1, <2>4, <2>5, <2>6 DEF Reclaiming, ChunkAt
  <1> QED
    BY <1>1, <1>8, <1>9, <1>10, <1>11, <1>12, <1>13 DEF IInv, Stored

-----------------------------------------------------------------------------
\* A dropped message leaves the guard's row and nothing else.
LEMMA DropInv == ASSUME IInv, NEW w \in Workers, Drop(w) PROVE IInv'
  <1>1. /\ tx[w].pc = "drop" /\ processed' = processed \cup {tx[w].msg}
        /\ tx' = [tx EXCEPT ![w] = NoTx]
        /\ UNCHANGED <<message, attachment, copy, blob, refcount, idle, blobChunk, chunk,
                       chunkRef, used, object, gc, faults>>
    BY DEF Drop, RolledBack
  <1>2. tx[w].msg \in Msgs /\ Cursors(tx[w]) /\ Alone(w, tx[w])
    BY <1>1 DEF IInv, Delivery, Cursors
  <1>3. RowTypes'
    BY <1>1, <1>2 DEF IInv, Stored, RowTypes
  <1>4. Referenced'
    BY <1>1 DEF IInv, Stored, Referenced, ChunkAt
  <1>5. Counted'
    BY <1>1 DEF IInv, Stored, Counted, CopiesOf, Holders, ChunkAt
  <1>6. tx' \in [Workers -> TxType] /\ tx'[w] = NoTx /\ \A v \in Workers \ {w} : tx'[v] = tx[v]
    BY <1>1, NoTxOK DEF IInv, Delivery, Cursors
  <1>7. ASSUME NEW v \in Workers PROVE Delivery(v, tx[v])'
    <2>1. CASE v = w
      BY <1>6, <2>1, FS_EmptySet
      DEF Delivery, Cursors, Mapped, Alone, NoTx, TxType, AttachmentPcs
    <2>2. CASE v # w
      <3>1. Delivery(v, tx[v]) /\ tx'[v] = tx[v]
        BY <1>6, <2>2 DEF IInv
      <3>2. Cursors(tx[v])' /\ Mapped(tx[v])'
        BY <1>1, <3>1 DEF Delivery, Cursors, Mapped, ChunkAt
      <3>3. Alone(v, tx[v])'
        BY <1>1, <1>2, <1>6, <2>2, <3>1 DEF Delivery, Alone, ChunkAt, NoTx
      <3> QED
        BY <3>2, <3>3 DEF Delivery
    <2> QED
      BY <2>1, <2>2
  <1>8. ASSUME NEW h \in Sweepers PROVE Reclaiming(h, gc[h])'
    BY <1>1 DEF IInv, Reclaiming, ChunkAt
  <1> QED
    BY <1>1, <1>3, <1>4, <1>5, <1>6, <1>7, <1>8 DEF IInv, Stored

\* The empty store.
LEMMA InitInv == ASSUME Init PROVE IInv
  <1> USE DEF Init
  <1>1. RowTypes
    BY StoreConstants DEF RowTypes
  <1>2. Referenced
    BY FS_EmptySet DEF Referenced
  <1>3. Counted
    <2>1. \A b \in Blobs : CopiesOf(b) = {}
      BY DEF CopiesOf
    <2>2. \A c \in Chunks : Holders(blobChunk, c) = {}
      BY DEF Holders
    <2> QED
      BY <2>1, <2>2, FS_EmptySet DEF Counted
  <1>4. ASSUME NEW w \in Workers PROVE Delivery(w, tx[w])
    BY NoTxOK
  <1>5. ASSUME NEW g \in Sweepers PROVE Reclaiming(g, gc[g])
    BY DEF Reclaiming, NoSweep, SweepType
  <1>6. tx \in [Workers -> TxType] /\ gc \in [Sweepers -> SweepType]
    BY <1>4, <1>5 DEF Delivery, Cursors, Reclaiming
  <1> QED
    BY <1>1, <1>2, <1>3, <1>4, <1>5, <1>6, StoreConstants DEF IInv, Stored

\* A worker's steps, put together.
LEMMA WorkInv == ASSUME IInv, NEW w \in Workers, Work(w) PROVE IInv'
  <1> USE DEF IInv
  <1>1. ASSUME NEW m \in Msgs, Claim(w, m) PROVE IInv'
    BY <1>1, ClaimOK, WorkerStep DEF Claim
  <1>2. CASE ReadKnown(w)
    BY <1>2, ReadKnownOK, WorkerStep DEF ReadKnown, InTx
  <1>3. CASE ReadChunks(w)
    BY <1>3, ReadChunksOK, WorkerStep DEF ReadChunks, InTx
  <1>4. CASE Upload(w)
    BY <1>4, UploadOK, WorkerStep DEF Upload, InTx
  <1>5. CASE InsertChunk(w)
    BY <1>5, InsertChunkOK, WorkerStep DEF InsertChunk, InTx
  <1>6. CASE InsertBlob(w)
    BY <1>6, InsertBlobOK, WorkerStep DEF InsertBlob, InTx
  <1>7. CASE InsertMap(w)
    BY <1>7, InsertMapOK, WorkerStep DEF InsertMap, InTx
  <1>8. CASE Link(w)
    BY <1>8, LinkOK, WorkerStep DEF Link, InTx
  <1>9. CASE Resolve(w)
    BY <1>9, ResolveOK, WorkerStep DEF Resolve, InTx
  <1>10. CASE Deliver(w)
    BY <1>10, DeliverOK, WorkerStep DEF Deliver, InTx
  <1>11. CASE Commit(w)
    BY <1>11, CommitInv
  <1>12. CASE Drop(w)
    BY <1>12, DropInv
  <1> QED
    BY <1>1, <1>2, <1>3, <1>4, <1>5, <1>6, <1>7, <1>8, <1>9, <1>10, <1>11, <1>12 DEF Work

\* An aborted delivery leaves no row behind.
LEMMA WorkerFailsInv ==
    ASSUME IInv, NEW w \in Workers, Abort(w) \/ WorkerVictim(w)
    PROVE  IInv'
  <1>1. RolledBack(w) /\ UNCHANGED <<tables, gc>> /\ object' = object
    BY DEF Abort, WorkerVictim
  <1>2. faults' \in 0..MaxFaults
    BY StoreConstants DEF Abort, WorkerVictim, IInv
  <1> QED
    BY <1>1, <1>2, RolledBackOK, WorkerStep DEF IInv

\* A sweep's steps, put together.
LEMMA SweepInv == ASSUME IInv, NEW g \in Sweepers, Sweep(g) PROVE IInv'
  BY BeginSweepInv, LockOrphansInv, DeleteOrphansInv, CommitOrphansInv, SelectBlobsInv,
     LockBlobsInv, LowerChunksInv, DeleteBlobsInv, CommitBlobsInv, LockChunksInv,
     DeleteChunksInv, DeleteObjectsInv, CommitChunksInv
  DEF Sweep

\* Nothing changes when nobody moves.
LEMMA StutterInv == ASSUME IInv, UNCHANGED vars PROVE IInv'
  <1>1. CASE Workers = {} /\ Sweepers = {}
    BY <1>1 DEF vars, tables, IInv, Stored, RowTypes, Referenced, Counted, CopiesOf,
                Holders, ChunkAt
  <1>2. ASSUME NEW w \in Workers PROVE IInv'
    <2>1. tx' = [tx EXCEPT ![w] = tx'[w]] /\ Delivery(w, tx'[w])
      BY DEF vars, IInv
    <2> QED
      BY <2>1, WorkerStep DEF vars, IInv
  <1>3. ASSUME NEW g \in Sweepers PROVE IInv'
    <2>1. gc' = [gc EXCEPT ![g] = gc'[g]] /\ Reclaiming(g, gc'[g]) /\ Free(gc'[g])
      BY DEF vars, IInv, Free, Delivery, Alone
    <2> QED
      BY <2>1, SweepStep DEF vars, IInv
  <1> QED
    BY <1>1, <1>2, <1>3

\* IInv holds in every reachable state of every instance.
THEOREM Invariance == Spec => []IInv
  <1>1. Init => IInv
    BY InitInv
  <1>2. IInv /\ [Next]_vars => IInv'
    <2> SUFFICES ASSUME IInv, [Next]_vars PROVE IInv'
      OBVIOUS
    <2>1. ASSUME NEW w \in Workers, Work(w) PROVE IInv'
      BY <2>1, WorkInv
    <2>2. ASSUME NEW w \in Workers, Abort(w) \/ WorkerVictim(w) PROVE IInv'
      BY <2>2, WorkerFailsInv
    <2>3. ASSUME NEW x \in Mailboxes, NEW m \in Msgs, DeleteCopy(x, m) PROVE IInv'
      BY <2>3, DeleteCopyInv
    <2>4. ASSUME NEW g \in Sweepers, Sweep(g) PROVE IInv'
      BY <2>4, SweepInv
    <2>5. ASSUME NEW g \in Sweepers, CrashSweep(g) \/ SweepVictim(g) PROVE IInv'
      BY <2>5, SweepFailsInv
    <2>6. CASE Tick
      BY <2>6, TickInv
    <2>7. CASE UNCHANGED vars
      BY <2>7, StutterInv
    <2> QED
      BY <2>1, <2>2, <2>3, <2>4, <2>5, <2>6, <2>7 DEF Next
  <1> QED
    BY <1>1, <1>2, PTL DEF Spec

\* Type correctness, and every copy lies in a mailbox its message can reach: the
\* recipients deliver() may write to are those routing.resolve() allows.
THEOREM TypeCorrect == Spec => []TypeOK
  <1>1. IInv => TypeOK
    BY DEF IInv, Stored, RowTypes, Delivery, Cursors, TypeOK
  <1> QED
    BY <1>1, Invariance, PTL

\* blob.refcount counts copies and chunk.refcount counts blob_chunk rows, although
\* deliveries, user deletes and sweeps only ever add to or subtract from them.
THEOREM CountersExact == Spec => []RefcountsExact
  <1>1. IInv => RefcountsExact
    BY DEF IInv, Stored, RowTypes, Counted, CopiesOf, RefcountsExact
  <1> QED
    BY <1>1, Invariance, PTL

\* refcount_zeroed_at is NULL exactly when refcount > 0, the column's documented
\* invariant (migration 9c3e5a1d7b42), under every interleaving of deliver() and
\* the delete trigger.
THEOREM ClockExact == Spec => []ClockRunsIffGarbage
  <1>1. IInv => ClockRunsIffGarbage
    BY DEF IInv, Stored, Counted, ClockRunsIffGarbage
  <1> QED
    BY <1>1, Invariance, PTL

\* The RuntimeError of gc.py's phase 2 and a foreign key error in phase 3 cannot
\* happen, whatever locks are skipped and whatever changed since the SELECT.
THEOREM SweepsFinish == Spec => []SweepNeverRaises
  <1>1. IInv => SweepNeverRaises
    BY DEF IInv, Reclaiming, SweepNeverRaises
  <1> QED
    BY <1>1, Invariance, PTL

\* No step of a sweep removes a copy or the message row of one: phase 1's second
\* statement and the rows' locks are enough.
THEOREM MailKept == Spec => SweepKeepsMail
  <1> DEFINE Kept == gc' # gc => /\ copy \subseteq copy'
                                 /\ \A k \in copy : k[2] \in message'
  <1>1. IInv /\ [Next]_vars => [Kept]_vars
    <2> SUFFICES ASSUME IInv, Next PROVE Kept
      BY DEF vars
    <2>0. \A k \in copy : k[2] \in message
      BY DEF IInv, Stored, Referenced
    <2>1. ASSUME NEW w \in Workers, Work(w) \/ Abort(w) \/ WorkerVictim(w) PROVE gc' = gc
      BY <2>1 DEF Work, Abort, WorkerVictim, Claim, InTx, ReadKnown, ReadChunks, Upload,
                  InsertChunk, InsertBlob, InsertMap, Link, Resolve, Deliver, Commit, Drop
    <2>2. ASSUME NEW x \in Mailboxes, NEW m \in Msgs, DeleteCopy(x, m) PROVE gc' = gc
      BY <2>2 DEF DeleteCopy
    <2>3. ASSUME NEW g \in Sweepers, CommitOrphans(g) PROVE Kept
      <3>1. gc[g].pc = "p1_commit" /\ \A k \in copy : k[2] \notin gc[g].msgs
        BY <2>3, OpenType DEF CommitOrphans, InSweep, Reclaiming
      <3> QED
        BY <2>0, <2>3, <3>1 DEF CommitOrphans
    <2>4. ASSUME NEW g \in Sweepers, Sweep(g) \/ CrashSweep(g) \/ SweepVictim(g),
                 ~CommitOrphans(g)
          PROVE  copy' = copy /\ message' = message
      BY <2>4 DEF Sweep, CrashSweep, SweepVictim, Sweeping, tables, BeginSweep, LockOrphans,
                  DeleteOrphans, SelectBlobs, LockBlobs, LowerChunks, DeleteBlobs,
                  CommitBlobs, LockChunks, DeleteChunks, DeleteObjects, CommitChunks
    <2>5. CASE Tick
      BY <2>0, <2>5 DEF Tick
    <2> QED
      BY <2>0, <2>1, <2>2, <2>3, <2>4, <2>5 DEF Next
  <1> QED
    BY <1>1, Invariance, PTL DEF Spec, SweepKeepsMail

-----------------------------------------------------------------------------
(* What a mailbox holds.  The sum over its copies is a fold, and folds are  *)
(* reasoned about by induction over the subsets of a finite set; with the   *)
(* property as a set of subsets that is first-order: a smallest subset      *)
(* without it would have it.                                                *)

\* Induction over the subsets of a finite set, the property given as a set.
LEMMA SubsetInduction ==
    ASSUME NEW S, IsFiniteSet(S), NEW P,
           \A T \in SUBSET S : (\A U \in SUBSET T : U # T => U \in P) => T \in P
    PROVE  S \in P
  <1> SUFFICES ASSUME S \notin P PROVE FALSE
    OBVIOUS
  <1> DEFINE Bad == {T \in SUBSET S : T \notin P}
  <1>1. Bad \subseteq FiniteSubsetsOf(S) /\ Bad # {}
    BY FS_Subset DEF FiniteSubsetsOf
  <1>2. PICK T \in Bad : \A U \in Bad : <<U, T>> \notin StrictSubsetOrdering(S)
    <2>1. IsWellFoundedOn(StrictSubsetOrdering(S), FiniteSubsetsOf(S))
      BY FS_StrictSubsetOrderingWellFounded
    <2> HIDE DEF Bad
    <2> QED
      BY <1>1, <2>1, WFMin
  <1>3. \A U \in SUBSET T : U # T => U \in P
    BY <1>2 DEF StrictSubsetOrdering
  <1> QED
    BY <1>2, <1>3

\* What the copies K weigh, as UsedBytesExact sums it, and the recursive
\* function behind that sum.
Weight(K) == MapThenSumSet(LAMBDA k : SizeOf[k[2]], K)
Some(K)   == CHOOSE k \in K : TRUE
Sums(f, K) ==
    f = [S \in SUBSET K |-> IF S = {} THEN 0
                            ELSE SizeOf[Some(S)[2]] + f[S \ {Some(S)}]]

LEMMA WeightDef == \A K : Weight(K) = (CHOOSE f : Sums(f, K))[K]
  BY DEF Weight, MapThenSumSet, MapThenFoldSet, Sums, Some

LEMMA SumsAt ==
    ASSUME NEW K, NEW f, Sums(f, K), NEW S \in SUBSET K
    PROVE  f[S] = IF S = {} THEN 0 ELSE SizeOf[Some(S)[2]] + f[S \ {Some(S)}]
  BY DEF Sums

LEMMA SomeIn == \A S : S # {} => Some(S) \in S
  BY DEF Some

\* Two such functions agree where both are defined.
LEMMA SumsUnique ==
    ASSUME NEW K, NEW f, Sums(f, K), NEW L, NEW g, Sums(g, L),
           NEW S, S \subseteq K, S \subseteq L, IsFiniteSet(S)
    PROVE  f[S] = g[S]
  <1> DEFINE P == {T \in SUBSET S : f[T] = g[T]}
  <1>1. ASSUME NEW T \in SUBSET S, \A U \in SUBSET T : U # T => U \in P
        PROVE  T \in P
    <2>1. /\ f[T] = IF T = {} THEN 0 ELSE SizeOf[Some(T)[2]] + f[T \ {Some(T)}]
          /\ g[T] = IF T = {} THEN 0 ELSE SizeOf[Some(T)[2]] + g[T \ {Some(T)}]
      BY SumsAt
    <2>2. T # {} => f[T \ {Some(T)}] = g[T \ {Some(T)}]
      BY <1>1, SomeIn
    <2> QED
      BY <2>1, <2>2
  <1> HIDE DEF P
  <1>2. S \in P
    BY <1>1, SubsetInduction
  <1> QED
    BY <1>2 DEF P

LEMMA SumsExist ==
    ASSUME NEW K, IsFiniteSet(K)
    PROVE  \E f : Sums(f, K)
  <1> DEFINE P == {T \in SUBSET K : \E f : Sums(f, T)}
  <1>1. ASSUME NEW T \in SUBSET K, \A U \in SUBSET T : U # T => U \in P
        PROVE  T \in P
    <2> DEFINE F(U) == CHOOSE f : Sums(f, U)
               Rest(S) == S \ {Some(S)}
               g == [S \in SUBSET T |-> IF S = {} THEN 0
                                        ELSE SizeOf[Some(S)[2]] + F(Rest(S))[Rest(S)]]
    <2>1. \A U \in SUBSET T : U # T => Sums(F(U), U)
      BY <1>1
    <2> HIDE DEF F
    <2>2. ASSUME NEW S \in SUBSET T, S # {}
          PROVE  g[Rest(S)] = F(Rest(S))[Rest(S)]
      <3> DEFINE U == Rest(S)
      <3>1. U \in SUBSET T /\ U # T /\ Sums(F(U), U)
        BY <2>1, <2>2, SomeIn
      <3>2. F(U)[U] = IF U = {} THEN 0 ELSE SizeOf[Some(U)[2]] + F(U)[Rest(U)]
        <4> HIDE DEF U
        <4> QED
          BY <3>1, SumsAt
      <3>3. CASE U = {}
        BY <3>1, <3>2, <3>3
      <3>4. CASE U # {}
        <4>1. Rest(U) \in SUBSET U /\ Rest(U) # T /\ IsFiniteSet(Rest(U)) /\ Rest(U) \in SUBSET T
          BY <3>1, <3>4, SomeIn, FS_Subset
        <4>2. Sums(F(Rest(U)), Rest(U))
          BY <4>1, <2>1
        <4>3. F(U)[Rest(U)] = F(Rest(U))[Rest(U)]
          <5> HIDE DEF Rest, U
          <5> QED
            BY <3>1, <4>1, <4>2, SumsUnique
        <4> QED
          BY <3>1, <3>2, <3>4, <4>3
      <3> QED
        BY <3>3, <3>4
    <2>3. g = [S \in SUBSET T |-> IF S = {} THEN 0 ELSE SizeOf[Some(S)[2]] + g[Rest(S)]]
      <3> HIDE DEF Rest
      <3> QED
        BY <2>2
    <2>4. Sums(g, T)
      BY <2>3 DEF Sums
    <2> QED
      BY <2>4
  <1> HIDE DEF P
  <1>2. K \in P
    BY <1>1, SubsetInduction
  <1> QED
    BY <1>2 DEF P

\* The sum, one chosen copy at a time ...
LEMMA WeightStep ==
    ASSUME NEW K, IsFiniteSet(K)
    PROVE  Weight(K) = IF K = {} THEN 0
                       ELSE SizeOf[Some(K)[2]] + Weight(K \ {Some(K)})
  <1> DEFINE F(S) == CHOOSE f : Sums(f, S)
             R == K \ {Some(K)}
  <1>1. IsFiniteSet(R) /\ R \subseteq K
    BY FS_Subset
  <1>2. Sums(F(K), K) /\ Sums(F(R), R)
    BY <1>1, SumsExist
  <1>3. Weight(K) = F(K)[K] /\ Weight(R) = F(R)[R]
    BY WeightDef
  <1> HIDE DEF F
  <1>4. F(K)[R] = F(R)[R]
    <2> HIDE DEF R
    <2> QED
      BY <1>1, <1>2, SumsUnique
  <1>5. F(K)[K] = IF K = {} THEN 0 ELSE SizeOf[Some(K)[2]] + F(K)[R]
    BY <1>2, SumsAt
  <1> QED
    BY <1>3, <1>4, <1>5

LEMMA WeightType ==
    ASSUME NEW K, IsFiniteSet(K), \A k \in K : k[2] \in Msgs
    PROVE  Weight(K) \in Nat
  <1> DEFINE P == {T \in SUBSET K : Weight(T) \in Nat}
  <1>1. ASSUME NEW T \in SUBSET K, \A U \in SUBSET T : U # T => U \in P
        PROVE  T \in P
    <2>1. Weight(T) = IF T = {} THEN 0 ELSE SizeOf[Some(T)[2]] + Weight(T \ {Some(T)})
      BY WeightStep, FS_Subset
    <2>2. T # {} => SizeOf[Some(T)[2]] \in Nat /\ Weight(T \ {Some(T)}) \in Nat
      BY <1>1, SomeIn, StoreConstants
    <2> QED
      BY <2>1, <2>2
  <1> HIDE DEF P
  <1>2. K \in P
    BY <1>1, SubsetInduction
  <1> QED
    BY <1>2 DEF P

\* ... and in any order: taking one copy out takes its size off.
LEMMA WeightRemove ==
    ASSUME NEW K, IsFiniteSet(K), \A k \in K : k[2] \in Msgs, NEW e \in K
    PROVE  Weight(K) = SizeOf[e[2]] + Weight(K \ {e})
  <1> DEFINE P == {T \in SUBSET K : \A k \in T : Weight(T) = SizeOf[k[2]] + Weight(T \ {k})}
  <1>0. \A T \in SUBSET K : IsFiniteSet(T) /\ Weight(T) \in Nat
    BY FS_Subset, WeightType
  <1>1. ASSUME NEW T \in SUBSET K, \A U \in SUBSET T : U # T => U \in P
        PROVE  T \in P
    <2> SUFFICES ASSUME NEW k \in T PROVE Weight(T) = SizeOf[k[2]] + Weight(T \ {k})
      OBVIOUS
    <2> DEFINE s == Some(T)
    <2>1. s \in T /\ SizeOf[s[2]] \in Nat /\ SizeOf[k[2]] \in Nat
      BY SomeIn, StoreConstants
    <2>2. Weight(T) = SizeOf[s[2]] + Weight(T \ {s})
      BY <1>0, WeightStep
    <2> HIDE DEF s
    <2>3. CASE k = s
      BY <2>2, <2>3
    <2>4. CASE k # s
      <3>1. T \ {s} \in P /\ T \ {k} \in P
        BY <1>1, <2>1
      <3> DEFINE R == T \ {s, k}
      <3>2. R = (T \ {s}) \ {k} /\ R = (T \ {k}) \ {s} /\ Weight(R) \in Nat
        BY <1>0
      <3>3. Weight(T \ {s}) = SizeOf[k[2]] + Weight(R)
        BY <3>1, <3>2, <2>4
      <3>4. Weight(T \ {k}) = SizeOf[s[2]] + Weight(R)
        BY <3>1, <3>2, <2>1, <2>4
      <3> HIDE DEF P, R
      <3> QED
        BY <2>1, <2>2, <3>2, <3>3, <3>4
    <2> QED
      BY <2>3, <2>4
  <1> HIDE DEF P
  <1>2. K \in P
    BY <1>1, SubsetInduction
  <1> QED
    BY <1>2 DEF P

\* The copies of one mailbox.
HeldBy(x, K) == {k \in K : k[1] = x}
Exact == \A x \in Mailboxes : used[x] = Weight(HeldBy(x, copy))

LEMMA HeldFinite ==
    ASSUME NEW K, K \subseteq Mailboxes \X Msgs, NEW x
    PROVE  /\ IsFiniteSet(HeldBy(x, K))
           /\ \A k \in HeldBy(x, K) : k[2] \in Msgs
           /\ Weight(HeldBy(x, K)) \in Nat
  <1>1. IsFiniteSet(Mailboxes \X Msgs)
    BY StoreConstants, FS_Product
  <1>2. HeldBy(x, K) \subseteq Mailboxes \X Msgs
    BY DEF HeldBy
  <1>3. IsFiniteSet(HeldBy(x, K)) /\ \A k \in HeldBy(x, K) : k[2] \in Msgs
    BY <1>1, <1>2, FS_Subset
  <1> QED
    BY <1>3, WeightType

\* deliver() charges a mailbox for one copy, which it did not have.
LEMMA CommitExact == ASSUME IInv, IInv', Exact, NEW w \in Workers, Commit(w) PROVE Exact'
  <1> DEFINE t == tx[w]
             new(x) == <<x, t.msg>>
  <1>0. /\ used \in [Mailboxes -> Int]
        /\ copy \subseteq Mailboxes \X Msgs /\ copy' \subseteq Mailboxes \X Msgs
    BY DEF IInv, Stored, RowTypes
  <1>1. /\ t.msg \in Msgs /\ t.msg \notin processed
        /\ copy' = copy \cup {new(x) : x \in t.to}
        /\ used' = [x \in Mailboxes |-> IF x \in t.to THEN used[x] + SizeOf[t.msg] ELSE used[x]]
    BY DEF IInv, Delivery, Cursors, Alone, Commit, Charged
  <1>2. \A x \in Mailboxes : new(x) \notin copy
    BY <1>1 DEF IInv, Stored, Referenced
  <1> HIDE DEF t
  <1> SUFFICES ASSUME NEW x \in Mailboxes PROVE used'[x] = Weight(HeldBy(x, copy'))
    BY DEF Exact
  <1>3. CASE x \in t.to
    <2>1. new(x) \in HeldBy(x, copy') /\ HeldBy(x, copy') \ {new(x)} = HeldBy(x, copy)
      BY <1>1, <1>2, <1>3 DEF HeldBy
    <2>2. Weight(HeldBy(x, copy')) = SizeOf[t.msg] + Weight(HeldBy(x, copy))
      <3>1. IsFiniteSet(HeldBy(x, copy')) /\ \A k \in HeldBy(x, copy') : k[2] \in Msgs
        BY <1>0, HeldFinite
      <3> QED
        BY <2>1, <3>1, WeightRemove
    <2>3. SizeOf[t.msg] \in Nat /\ Weight(HeldBy(x, copy)) \in Nat
      BY <1>0, <1>1, HeldFinite, StoreConstants
    <2>4. used'[x] = used[x] + SizeOf[t.msg] /\ used[x] = Weight(HeldBy(x, copy))
      BY <1>1, <1>3 DEF Exact
    <2> QED
      BY <2>2, <2>3, <2>4
  <1>4. CASE x \notin t.to
    <2>1. HeldBy(x, copy') = HeldBy(x, copy)
      BY <1>1, <1>4 DEF HeldBy
    <2> QED
      BY <1>1, <1>4, <2>1 DEF Exact
  <1> QED
    BY <1>3, <1>4

\* The trigger takes the copy's size off again, and never stops at zero: the
\* mailbox holds at least that copy.
LEMMA DeleteCopyExact ==
    ASSUME IInv, Exact, NEW x \in Mailboxes, NEW m \in Msgs, DeleteCopy(x, m)
    PROVE  Exact'
  <1>0. used \in [Mailboxes -> Int] /\ copy \subseteq Mailboxes \X Msgs
    BY DEF IInv, Stored, RowTypes
  <1>1. /\ <<x, m>> \in copy /\ copy' = copy \ {<<x, m>>}
        /\ used' = [used EXCEPT ![x] = IF @ >= SizeOf[m] THEN @ - SizeOf[m] ELSE 0]
    BY DEF DeleteCopy
  <1>2. /\ <<x, m>> \in HeldBy(x, copy)
        /\ HeldBy(x, copy') = HeldBy(x, copy) \ {<<x, m>>}
        /\ \A y \in Mailboxes : y # x => HeldBy(y, copy') = HeldBy(y, copy)
    BY <1>1 DEF HeldBy
  <1>3. Weight(HeldBy(x, copy)) = SizeOf[m] + Weight(HeldBy(x, copy'))
    <2>1. IsFiniteSet(HeldBy(x, copy)) /\ \A k \in HeldBy(x, copy) : k[2] \in Msgs
      BY <1>0, HeldFinite
    <2> QED
      BY <1>2, <2>1, WeightRemove
  <1>4. SizeOf[m] \in Nat /\ Weight(HeldBy(x, copy')) \in Nat
    BY <1>0, <1>1, HeldFinite, StoreConstants
  <1>5. used[x] = SizeOf[m] + Weight(HeldBy(x, copy'))
    BY <1>3 DEF Exact
  <1>6. used'[x] = Weight(HeldBy(x, copy'))
    BY <1>0, <1>1, <1>4, <1>5
  <1>7. \A y \in Mailboxes : y # x => used'[y] = Weight(HeldBy(y, copy'))
    BY <1>0, <1>1, <1>2 DEF Exact
  <1> QED
    BY <1>6, <1>7 DEF Exact

\* No other step touches a copy or a mailbox's bytes: the messages that phase 1
\* of a sweep deletes have no copy left.
LEMMA ExactNext == ASSUME IInv, IInv', Exact, [Next]_vars PROVE Exact'
  <1>0. ASSUME UNCHANGED <<copy, used>> PROVE Exact'
    BY <1>0 DEF Exact
  <1>1. ASSUME NEW w \in Workers, Work(w) \/ Abort(w) \/ WorkerVictim(w), ~Commit(w)
        PROVE  UNCHANGED <<copy, used>>
    BY <1>1 DEF Work, Claim, ReadKnown, ReadChunks, Upload, InsertChunk, InsertBlob, InsertMap,
       Link, Resolve, Deliver, Drop, InTx, Abort, WorkerVictim, tables
  <1>2. ASSUME NEW g \in Sweepers, CommitOrphans(g)
        PROVE  UNCHANGED <<copy, used>>
    <2>1. \A k \in copy : k[2] \notin gc[g].msgs
      BY <1>2, OpenType DEF CommitOrphans, InSweep, Reclaiming
    <2> QED
      BY <1>2, <2>1 DEF CommitOrphans
  <1>3. ASSUME NEW g \in Sweepers, Sweep(g) \/ CrashSweep(g) \/ SweepVictim(g), ~CommitOrphans(g)
        PROVE  UNCHANGED <<copy, used>>
    BY <1>3 DEF Sweep, CrashSweep, SweepVictim, Sweeping, tables, BeginSweep, LockOrphans,
       DeleteOrphans, SelectBlobs, LockBlobs, LowerChunks, DeleteBlobs, CommitBlobs,
       LockChunks, DeleteChunks, DeleteObjects, CommitChunks
  <1>4. CASE Tick \/ UNCHANGED vars
    BY <1>0, <1>4 DEF Tick, vars, tables
  <1> QED
    BY <1>0, <1>1, <1>2, <1>3, <1>4, CommitExact, DeleteCopyExact DEF Next

\* mailbox.used_bytes is the size of what the mailbox holds (HLD 11), after any
\* deliveries, replays and deletes; the trigger's GREATEST(0, ...) hides no drift.
THEOREM MailboxBytesExact == Spec => []UsedBytesExact
  <1>1. Init => Exact
    <2>1. IsFiniteSet({}) /\ Weight({}) = 0
      BY FS_EmptySet, WeightStep
    <2> QED
      BY <2>1 DEF Init, Exact, HeldBy
  <1>2. IInv /\ IInv' /\ Exact /\ [Next]_vars => Exact'
    BY ExactNext
  <1>3. Exact => UsedBytesExact
    BY DEF Exact, UsedBytesExact, Weight, HeldBy
  <1> QED
    BY <1>1, <1>2, <1>3, Invariance, PTL DEF Spec
=============================================================================

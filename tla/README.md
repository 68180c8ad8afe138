# A TLA+ model of Nimbus

Nimbus is a multi-tenant mail host: an SMTP receiver accepts mail, a worker
stores and delivers it with per-reseller deduplication of attachments, an API
serves mailboxes, and a sweep frees what nobody holds. This directory holds
TLA+ modules that model it, TLC configurations that check them on small
instances, and TLAPS proofs about them.

| file | what it is |
|---|---|
| `AttachmentStore.tla` | deliveries, deletes and sweeps over the shared Postgres rows and S3 objects |
| `Inbox.tla` | what the owner of a mailbox is promised; `AttachmentStore` implements it |
| `MCAttachmentStore.tla`, `store_*.cfg` | instances for TLC |
| `AttachmentStore_proofs.tla` | theorems about `AttachmentStore` and their proofs: rows, counters, quota |
| `AttachmentObjects_proofs.tla` | the same, continued: the grace period, S3 objects, the refinement of `Inbox` |
| `MailQueue.tla` | from the sender's DATA over the raw bucket and Kafka to the worker's acknowledgement |
| `MCMailQueue.tla`, `queue_*.cfg` | instances for TLC |
| `MailQueue_proofs.tla` | theorems about `MailQueue` and their proofs |
| `Provisioning.tla` | orders, verification of domains, and the Redis sets the receiver asks |
| `MCProvisioning.tla`, `provisioning.cfg` | its instance for TLC |
| `Session.tla` | the envelope of an SMTP connection while Data runs beside it |
| `Delivery.tla` | who gets a mail: several resellers, aliases, conversations, the search index |
| `Reading.tla` | pages of mail, and the list the web client builds of them |
| `Download.tla` | byte ranges of an attachment, cut off and resumed |
| `MCMail.tla`, `mail.cfg` | the instance of these four for TLC |
| `Provisioning_proofs.tla`, `Session_proofs.tla`, `Delivery_proofs.tla`, `Reading_proofs.tla`, `Download_proofs.tla` | their theorems and proofs |
| `PROJECT.json` | components, runs, mutants, the map from definitions to source lines, findings, hazards, theorems |

Paths below are relative to `src/backend/src/nimbus/` unless they say otherwise.

## 1. The system

| component | state it keeps | operations | talks to |
|---|---|---|---|
| SMTP receiver (`src/backend/smtp-receiver`) | one envelope per session | MAIL, RCPT, DATA/BDAT, RSET | address cache (SMEMBER), raw bucket (PUT), Kafka (publish) |
| Kafka consumer (`worker/main.py`) | partition offset | poll, process, commit offset, three retries then exit | pipeline |
| Delivery (`worker/pipeline.py`, `worker/routing.py`) | one Postgres transaction per event | replay guard, parse, store attachments, resolve, deliver, index | Postgres, both buckets |
| Sweep (`gc.py`) | one Postgres transaction per batch | phase 1 messages, phase 2 blobs, phase 3 chunks | Postgres, chunk bucket |
| Refcount trigger (`src/backend/migrations`) | `blob.refcount`, `refcount_zeroed_at`, `mailbox.used_bytes` | fires on every deleted copy | |
| Mailbox API (`api/routers/messages.py`, `threads.py`, `search.py`, `quota.py`) | copies, read and snooze flags | list, read, patch, delete, download | Postgres, chunk bucket |
| Provisioning (`api/routers/orders.py`, `domains.py`) | orders, domains, mailboxes | create order, verify domain | Postgres, address cache |
| Address cache (`api/addresses.py`) | Redis set of valid addresses | refresh (RENAME), add, publish a domain | Postgres, Redis |
| Search index (`search_index.py`) | one row per delivered copy | write inside a savepoint | Postgres |
| Web client (`src/frontend`) | lists on screen | paged loads | API |
| Retention script (`src/backend/scripts/apply_raw_retention.py`) | expiry rule of the raw bucket | | S3 |

What is hard here, and what would make each part correct:

* **Delivery and sweep** share blob and chunk rows without a common lock. A
  delivery is about a dozen statements under READ COMMITTED with S3 calls
  between them; a sweep deletes rows and objects meanwhile. Correct means: the
  two refcounts are exact although three writers only add and subtract; an
  attachment shown in an inbox always has its rows and bytes; the quota is
  exact; a sweep never takes mail away and in the end frees all garbage.
* **Receiver, Kafka, worker**: at-least-once delivery from store to inbox.
  Correct means: acknowledged mail is delivered once per recorded event, in
  spite of crashes, rebalances and retries, and before its raw copy expires.
* **Provisioning and cache**: an address is accepted if and only if a mailbox
  of a verified domain owns it, in the end, whatever orders, verifications and
  refreshes run at the same time.
* **The session**: with BDAT, `Data` runs beside the commands of its own connection. Correct means: an
  event carries the sender and the recipients that were answered with 250, of one mail and not of the next.
* **Fan-out**: one event, several resellers, pointers that may lead anywhere. Correct means: every
  recipient is served, nothing crosses from one tenant to another, and a search index that fails
  neither loses the mail nor blocks its partition.
* **Reading**: a page is read at one moment and answered at another, and the list changes in between.
  Correct means: pages skip and repeat nothing, late answers do not overwrite newer ones,
  a write touches the copy that was meant, and a download that is resumed is the file.

`PROJECT.json` lists each of these hazards at the line where it bites.

## 2. The plan

1. **Done.** `AttachmentStore` and `Inbox`: the part where a mistake destroys data.
2. **Done.** `MailQueue`: receiver store-then-publish, Kafka partitions with offsets, redelivery
   and rebalance, worker retries and restarts, expiry of raw mail; and `Session`, the envelope under
   BDAT and reset.
3. **Done.** `Provisioning`: orders with idempotency keys, domain verification, and the address cache.
4. **Done.** `Delivery`, `Reading`, `Download`: what users see of their mail.
5. **Done.** Proofs of the safety of `Provisioning`, `Session`, `Delivery` and `Reading`.
6. **Done.** Proofs of the timed half of the store (objects, grace period, refinement of `Inbox`), of the quota,
   and of `Download`. Every invariant and action property that a run checks is now also a theorem.
7. `DeleteCopy` in the two updates of its trigger, with the deadlock against `deliver`
   (routing.py:238), and its proofs.

Each module keeps the shape of the first: parameters as CONSTANTS with a named ASSUME,
one action per statement that other processes can come between (per step of the handler where none can), invariants as conjunctions of
named parts, no RECURSIVE operator.

## 3. AttachmentStore

### State

| variable | code |
|---|---|
| `processed`, `message`, `attachment`, `copy` | rows of `processed_event`, `message`, `message_attachment`, `mailbox_message` |
| `blob`, `refcount`, `idle` | rows of `blob`; its `refcount`; the time since `refcount_zeroed_at` |
| `blobChunk`, `chunk`, `chunkRef` | rows of `blob_chunk` and `chunk`; `chunk.refcount` |
| `used` | `mailbox.used_bytes` |
| `object` | objects in the chunk bucket |
| `tx[w]` | worker `w`: program counter inside `process_event`, age of its transaction, what it read, and its uncommitted writes |
| `gc[g]` | sweep `g`: program counter inside a phase, age of its transaction, the rows it has locked or deleted |

Table variables hold what is **committed**. A transaction's writes wait in `tx` or
`gc` and `Commit`, `CommitOrphans`, `CommitBlobs`, `CommitChunks` merge them: this is READ
COMMITTED, where a statement sees committed rows and its own. S3 has no transaction:
`object` changes at the call. A refcount is updated in place (`refcount + n`), so the merge
adds. A row that does not exist has refcount 0 and `idle` NULL in the model.

### Actions

* **Worker**, one action per statement or S3 call of `process_event`: `Claim` (replay guard, read,
  message row), `ReadKnown`, `ReadChunks`, `Upload`, `InsertChunk`, `InsertBlob`, `InsertMap` (with the
  increment of the chunk), `Link`, `Resolve`, `Deliver`, `Commit`; `Drop` when no recipient's domain is left. `Abort` is
  any failure: rollback, and the message can be claimed again, by any worker. A foreign key that
  does not hold rolls back inside `InsertMap` and `Link`.
* **User**: `DeleteCopy`, the delete with its trigger.
* **Sweep**, one action per statement: `LockOrphans`, `DeleteOrphans`, `CommitOrphans`;
  `SelectBlobs` (the snapshot), `LockBlobs` (locks and re-check of the row's own columns; the NOT EXISTS
  subquery keeps the snapshot's answer), `LowerChunks`, `DeleteBlobs` (foreign key error and short count as
  in the code), `CommitBlobs`; `LockChunks`, `DeleteChunks`, `DeleteObjects` (S3 may refuse
  keys), `CommitChunks`. `CrashSweep` kills it anywhere.
* **Postgres**: `WorkerWaitsOn` and `SweepWaitsOn` say for which process the next statement waits;
  a statement that waits is not enabled. `WorkerVictim` and `SweepVictim` are the deadlock
  detector. These, and ON CONFLICT, are modelled as PostgreSQL behaves and mapped as external.
* **Time**: `Tick` ages open transactions and idle clocks.

### What is abstracted

* A message is one reseller's copy of one event; a blob or chunk value stands for its
  `(reseller_id, hash)`. An event with recipients at two resellers commits both copies in one transaction,
  which is stronger than what is modelled; that is in the plan.
* Parsing and chunking are the constants `AttachmentsOf` and `ChunksOf`; a blob may list a chunk twice.
* `resolve` picks any subset of `Reach[m]`, because mailboxes and redirects may change until then.
* The thread id, the raw mail and the search index are left out. A dry-run sweep rolls everything back.
* `DeleteCopy` is one step: the trigger's two updates and the commit are not interleaved.

### Bounds

`MaxFaults` bounds injected failures in a behaviour; `Batch` is the code's `BATCH`. `TxnBound` is the one timing
assumption: an open transaction is younger than that when it ends (it guards `Tick`). In the code
it is the time of one delivery, against `GRACE` of 24 hours, so runs use `TxnBound` 1 and
`Grace` 2, the smallest values with `Grace >= 2 * TxnBound`, which is what the proof needs (section 12). Clocks stop at `Horizon`, past which no comparison changes.

## 4. MailQueue

### State

| variable | code |
|---|---|
| `sender`, `sent` | outside: what a sending server knows of its mail, and how often it has tried |
| `smtp[k]` | where the receiver's `Data` for sending `k` is: storing, publishing, replying |
| `raw` | objects in the raw bucket |
| `log`, `offset`, `owner`, `position` | Kafka: the partitions' records, the group's committed offsets, its assignment, the owners' fetch positions |
| `worker[w]` | a worker process: where it is in `run` and `_handle`, its record, its attempt |
| `processed`, `deliveries` | `processed_event`, and how often an event's transaction has committed its mail |
| `sick` | poison mail no human has looked at |

A key is a sending `<<mail, n>>`: `rawKey` is fresh every time, so a retry by the sender is a new event.

### Actions

* **Sender**: `Offer`, `HangUp` (it stops waiting or the answer is lost; `Data` runs on).
* **Receiver**: `Put`, `Publish`, `Reply`, each with its error. A failed store may have stored, a failed publish
  may have published. `CrashReceiver` kills all sessions; `main` gives them 30 seconds, `Data` may take ten minutes.
* **Kafka**: `Reassign` when an owner is gone, `Rebalance` when a member joins or was too slow. Neither waits
  for the handlers. Every position is set back to its committed offset.
* **Worker**: `Start`, `Poll`, `Claim` (replay guard: it waits for whoever holds the key uncommitted), `Read` (the raw mail
  and all that follows in the transaction: it fails for expired or poison mail), `CommitEvent` (whose answer may be
  lost), `Ack` (`consumer.commit()`: the positions of the partitions the worker owns **now**), `Hiccup` (any failure before the
  commit). A failed attempt is repeated until `Attempts` are used up, then the process exits without acknowledging.
  `CrashWorker` also stands for `consumer.commit()` raising after a rebalance. A supervisor restarts it.
* **Time and people**: `Expire`, the rule `apply_raw_retention.py` installs; `Repair`.

### What is abstracted

* A transaction is one step at its commit; its inside is `AttachmentStore`. Mail whose recipients' domains are gone is dropped
  there and counts as processed here.
* There is no clock. `Expire` may take an object that nobody needs at any time, and one that is still needed only
  if its record is blocked by one that cannot be processed, or is that record. That is the assumption that
  without a blocked partition mail is processed within `RETENTION_DAYS`.
* A publish that fails has appended its record by then or never does.
* `Assign` gives partitions to live members in any way, balanced or not: for the invariants that is more than Kafka does.
* The delays between attempts, addresses, envelope and payload are left out.

## 5. Provisioning

### State

| variable | code |
|---|---|
| `orders`, `owner`, `mailboxes`, `verified` | committed rows of `provision_order`, `domain`, `mailbox`; `domain.verified` |
| `validAddresses`, `catchAllDomains` | the two Redis sets; `Accepts` is the receiver's lookup |
| `api`, `rebuild` | the start of the API: `lifespan` and what `refresh` has read |
| `work[h]` | a request to the API, or `verify_domain.py`: program counter, request, uncommitted rows |
| `lost` | history: publications undone by a fault or by the swap of a starting API |

As in `AttachmentStore`, tables hold what is committed. What an order's transaction has inserted so far is `work[h].fresh` (the domain) and
`Inserted(work[h])` (the first `n` mailboxes). `WaitsFor` says whose uncommitted row the next INSERT meets; it and `Deadlocked` are
PostgreSQL's behaviour, mapped as external.

### Actions

* **Order**: `ReceiveOrder` (after the validators), `FindExistingOrder` (the replay), `ClaimKey`, `FindAgain` (the key was taken meanwhile: the
  holder's result, or 409 if it is another reseller's), `InsertDomain`, `InsertMailbox` once per mailbox, `CommitOrder`,
  `RereadVerified`, `Publish`. `RollBack` is any failure before the commit, `GiveUp` any failure after it.
* **Verification**: `ReceiveVerify`, `OwnedDomain`, `LookupTxt`, `CommitVerified`, then `ReadRows`, `Publish`, `PublishCatchAll` (`publish_domain`). `RunScript`
  enters at `CommitVerified`, as the script asks no DNS.
* **API and Redis**: `Start`, `ReadAll`, `SwapSet`, `SwapCatchAll` (`refresh`); `CrashApi`, `LoseRedis`.

`lost` is not a licence: only five places write to it. A handler that gives up between its commit and its `SADD`, a crash and a loss of
Redis are the failures that the docstring of addresses.py leaves to the next start. The fifth is `SwapSet`: requests cannot run before the API is up, but the
script can, and an address it publishes between the read and the RENAME of a starting API is gone until the next start.
The code loses it, and no property here says otherwise. `NoSilentGap` says that there is no other way, in particular none by an order and a verification that overlap.

### Bounds and abstractions

Two handlers, one fault, at most two mailboxes per order: enough for a deadlock between `<<a, b>>` and `<<b, a>>`, for a key used by both
resellers, and for a verification between any two statements of an order. Aliases and catch-alls have no operation in the code;
they exist on the legacy domain. The TXT lookup is a choice between found and not. Passwords and result texts are left out.
`SwapCatchAll` and `PublishCatchAll` are each one step, the query and the write to Redis together: a catch-all set in between is not seen, and no
operation of the code sets one.

## 6. Session

`sender`, `recipients` are the fields of `Session`; `data[k]` is the `k`-th call of `Data` with what it copied from them; `transfer` is
the one whose bytes the connection reads. `given` is history: what the sender was told 250 for. The actions are
`MailFrom`, `RcptTo`, `BeginData`, `LastChunk`, `ResetByClient`, `EndTransfer` on the connection, and
`Snapshot`, `PutBody`, `PublishEvent` in `Data`, which interleave: between the beginning of a BDAT transfer and the copy that `Data` takes under its
lock, RSET may clear the session and the next mail may begin. What saves the event is that the reset broke the first
transfer's reader, so its upload fails. The command order, the reader and the goroutine are those of the `go-smtp` library (v0.21.3),
modelled as session.go uses it. Bounds: two transfers, two recipients, and one sender, whose
loss shows as `Unset`; the theorem of section 12 has any number of each. A refused command changes nothing
and is no action.

## 7. Delivery

| variable | code |
|---|---|
| `alias`, `catchAll` | the pointers; any value of the instance, also into other domains and tenants |
| `envelope` | what an event and its headers say; Message-IDs are the sender's, and may be somebody else's |
| `done`, `message`, `inbox`, `found` | `processed_event`, `message` with its thread, `mailbox_message`, `message_index` |
| `job[w]` | the transaction of a worker: its event, the groups still to do, its uncommitted rows |

`ClaimMail` is the replay guard and `_group_by_reseller`; `StoreMessage` one group's message row with `_thread_id`; `RouteAndDeliver` `resolve`
and `deliver` for one group; `WriteIndex` and `IndexFails` the savepoint of `search_index.write`, with the choice between raising and keeping
the mail without its row; `CommitMail`, `MailFails`. What happens to attachments in between is `AttachmentStore`, where the
result of `resolve` is an arbitrary subset of `Reach`; here it is computed.

Bounds: two events, two workers, two failures; four domains, of two tenants and of nobody; three alias tables and
three catch-alls, which lead to a sibling domain, into another tenant, or shadow a mailbox; the second mail replies to the
first. One mail can never be indexed. A retry of the sender is another event, as in `MailQueue`.

## 8. Reading

| variable | code |
|---|---|
| `row` | `mailbox_message`: folder and whether it is snoozed, for the copies there are |
| `view`, `call`, `items`, `cursor`, `loading`, `loadingMore`, `error` | `usePaged` (hooks.ts): what the URL names, `latest.current`, and its state |
| `flights` | requests in the air, with the page that was read for them |
| `steady` | history: copies in view ever since the first page was read |

* **Server**: `DeliverMessage`, `PatchMessage`, `DeleteMessage` (with `_one_copy`), `Wake` (a snooze runs out: nothing runs, the predicate stops being
  true), `AnswerRequest` (the query of a request runs, at any moment of its flight).
* **Client**: `Mount` (App.tsx keys its routes by the path, so another folder or an opened message is another list), `Switch` (`?snoozed`, `?q`: the effect
  runs again), `Reload`, `LoadMore`, `Receive`, `FailRequest`; both settle as the `finally` blocks do.

Pages are sets of sequences defined by their order and limit (`Newest`), without the SQL. `Matches` says which messages a query finds. Not in the model: `is_read`,
the empty query (which asks for nothing), 401 (which leaves the list), the row that is removed in place after a delete (the path
changes with it, and the list is mounted anew).

Bounds: one row per page, four copies of three messages (two with the same time; one in two mailboxes; one in a mailbox of another tenant that claims the reader as a member), two first pages per
list, one move or delete. Smaller pages have more borders; with two calls an old answer and a new one race.

## 9. Download

A byte is `<<chunk, offset>>`, so that two places of a file that share a chunk have equal bytes. `slice_chunks` walks over the chunks in order;
here the chunks that reach into the window are a set, listed by `Ascending`. `Parse` and `SliceChunks` are `ranges.parse` and
`ranges.slice_chunks`; `GetAttachment` the handler up to its status and headers; `SendChunk` one read of the body, after the session with the
database is closed; `LoseCopy` the delete that may come before, between or during requests. A client that fetches the rest of what it has,
while connections break at any byte, is not part of the repository and is mapped as external: it is what the handler's comment has in mind (messages.py:396).

`ReplyIsTheRange` compares with a definition that decides byte by byte (`Wanted`). Bounds: a file of nothing, one of one chunk, one of three of
which two are the same, with chunks of one and two bytes; every header with numbers from 0 to 6, one past what is needed behind the end of five bytes; two
breaks. A header's text is left out: what `int()` also takes for a number (`1_0`, `+5`) and a doubled minus sign are not among the
forms. `bytes=9-2` on a file of five is answered with 416, because ranges.py asks for the start before it compares the ends; RFC 7233 would let it
ignore the header. `Behind` follows the code there.

## 10. Properties and runs

| property | says |
|---|---|
| `TypeOK` | types; a copy lies only in a mailbox its message can reach |
| `RefcountsExact` | `blob.refcount` and `chunk.refcount` equal what they count |
| `ClockRunsIffGarbage` | `refcount_zeroed_at` is NULL exactly while the blob is in use |
| `UsedBytesExact` | the quota counter equals the size of the copies held |
| `BlobRowsAreComplete` | a blob row never outlives its map, chunk rows or objects: what `_store_attachment`'s shortcut relies on |
| `EveryCopyIsServed` | every attachment of every copy can be downloaded |
| `SweepNeverRaises` | the `RuntimeError` of phase 2 and an uncaught foreign key error in phase 3 never happen |
| `SweepKeepsMail` | no step of a sweep removes a copy or its message |
| `GraceIsServed` | a blob row goes only after a whole grace period without a copy |
| `ImplementsInbox` | refinement: `Inbox` with "inbox" as the copies that can be served |
| `GarbageIsReclaimed` | liveness: unreferenced blob and chunk rows are freed or used again |
| `AckedIsProcessed` | the group's offset passes only records whose transaction is committed |
| `EventsDeliverOnce` | an event is delivered at most once, whoever holds it |
| `EventsHaveTheirMail` | an event that is still to be processed has its raw object |
| `AcceptedIsKept` | mail answered with 250 is delivered or still ahead of the offset |
| `DeliveredUnlessBlocked` | liveness: accepted mail is delivered, or stands behind a record of its own partition that cannot be processed |
| `AcceptedIsDelivered` | liveness: accepted mail is delivered (as documented; violated) |
| `NeverShared` | no two workers have the same message in hand (as documented; violated) |
| `Provisioning!TypeOK` | types of rows, sets and handlers; the loop over an order's mailboxes stays inside the list |
| `OrdersAreWhole` | an order has all its mailboxes or left none; no key and no mailbox is used twice |
| `CacheIsNeverStale` | Redis holds only what may receive mail, at every step of everybody |
| `NoSilentGap` | what may receive mail is in Redis, or somebody is about to put it there, or a fault or a swap took it away |
| `EveryRequestEnds` | liveness: orders that wait for each other, under keys of their own or the same, are all answered |
| `RestartHeals` | liveness: what was deliverable while the API was down is accepted again |
| `EventsNameTheirMail` | an event has the sender and recipients of its own transfer, each once, and a whole body |
| `CopiesStayInTenant` | no alias and no catch-all takes mail into another tenant |
| `ThreadsStayInTenant` | no Message-ID makes mail join another tenant's conversation |
| `RecipientsAreServed` | a processed mail lies exactly where its recipients' addresses lead |
| `DeliveredIsFound` | delivered mail has its index rows, unless its text cannot be indexed |
| `MailsEnd` | liveness: a mail that was begun is processed, whatever the index does |
| `ListIsSorted` | a list is newest first and shows no copy twice |
| `NothingIsSkipped` | at the end of a list, all that was in view all along is shown |
| `ListShowsItsView` | a list shows readable mail of its own folder or query, none of an earlier one |
| `SpinnersAreTrue` | a spinner turns exactly while its request is in the air |
| `WritesTouchOneCopy` | a move or a delete changes one copy, whoever shares the message |
| `ReplyIsTheRange` | a response is, byte by byte, the range that was asked for, and 416 for one that starts behind the end, also where ranges.py differs from RFC 7233 (section 9) |
| `DownloadIsTheFile` | what a client holds is a prefix of the file, and the file when it thinks so |

| run | instance | result |
|---|---|---|
| `store_shared_chunk` | 2 workers, 1 sweep, 3 messages, 2 blobs sharing a chunk (one lists it twice), 1 fault | about 311 000 states: holds |
| `store_same_blob` | 2 workers, 1 sweep, 3 messages with one blob, 2 mailboxes | about 149 000 states: holds |
| `store_two_sweeps` | 1 worker, 2 sweeps, 2 messages, one with both blobs | about 71 000 states: holds; both kinds of deadlock victim occur |
| `store_reclaim` | 1 worker, 1 sweep, 2 messages, 1 fault, fairness | about 17 000 states: holds |
| `store_no_grace` | 2 workers, `Grace` 0 | `EveryCopyIsServed` violated |
| `store_sweep_crash` | 2 workers, `CrashAfterS3` | `EveryCopyIsServed` violated |
| `queue_faults` | 1 mail, 3 sendings, 2 partitions, 2 workers, 2 attempts, 3 faults | about 368 000 states: holds |
| `queue_poison` | 3 mails (one poison), 2 partitions, 1 worker, 1 fault, fairness | about 395 000 states: holds |
| `queue_backlog` | 2 mails (one poison), 1 partition, no fault, fairness | `AcceptedIsDelivered` violated |
| `queue_rebalance` | 1 mail, 2 partitions, 2 workers, 1 fault | `NeverShared` violated |
| `provisioning` | 2 resellers, 2 domains (one from before verification), 2 keys, 2 handlers, 1 fault, fairness | about 67 000 states: holds |
| `mail` | the four modules of sections 6 to 9, one per behaviour, fairness of the workers | about 94 000 states: holds |

Two workers are enough for each race between deliveries (all of them are between a reader and one writer), two
messages keep a blob in use while another copy goes, and a third message lets a blob be stored, freed and
stored again. The two runs with three messages use the symmetry of workers and of the messages with the same
attachment; no liveness is checked under symmetry.

**Fairness** (`FairSpec`). The consumer retries a message until it is done: weak fairness of each worker's steps. Sweeps
are started again and again by a schedule the code leaves to the operator (gc.py's docstring says so): weak
fairness of each sweep, without which nothing is ever freed. Statements that wait for a row lock are strongly fair,
as Postgres hands a lock to the first waiter in its queue. The deadlock detector always runs, and time passes. Failures are not
fair and at most `MaxFaults`; deletes are never forced.

In the queue, weak fairness of each worker (its supervisor restarts it, the broker serves it), of `Reassign`
(Kafka notices a dead member) and of `Repair` (main.py:68: a human looks at it). Senders, expiry and faults are not fair.
And one strong fairness per partition: a partition whose owner is ready for the next record again and again is
polled in the end. `async for record in consumer` (main.py:43) names no partition. A worker that is restarted after a poison
record fetches anew from all it owns; that the order in which they answer is not always the same is an assumption about the library and the broker,
which are not in the repository. Without this assumption TLC refutes
`DeliveredUnlessBlocked` already with one worker: after every restart it fetches the poison record first, for ever.

Three sendings give the queue two duplicates and one more; three faults let a rebalance, a crash and a lost
answer combine; two attempts have a first, a repeated and a last one (the code has four).

`queue_poison` has two partitions and one worker that owns both, as in the measured deployment (HLD.md:1552: one worker
consumes all four). Its three mails fall on the partitions in every way: poison alone on one and two good mails on the other,
before and behind each other. The worker stops again and again at the poison record, whose raw mail may have expired for good, and
the healthy partition is served all the same. That it gives up matters for that: under the mutant, a worker that goes on retrying,
the healthy partition starves. What main.py:70 says ("one bad message halts one partition") is checked in this form and no wider:

* Somebody has to start the worker again. While it is down all its partitions wait, and in a group the poison record goes to
  the next worker, which stops at it too. The repository has no supervisor for it; fairness of `Start` stands for one.
* With several workers there is more to assume: that rebalances do not for ever hand the healthy partition to the
  worker that is busy with the poison record, or come between the poll and the acknowledgement of every good one. TLC finds
  both loops with two workers, since `Assign` is arbitrary. The code's 40 seconds of retries against a moment per good mail, and Kafka's
  assignor, speak against them, but neither is in the model.

In `provisioning`, a supervisor starts the API again (weak fairness of `Boot`), and each handler
runs on with strong fairness: an INSERT that waits gets its turn in Postgres's lock queue, and an `ON CONFLICT`
that finds the holder gone goes on. Two handlers are enough for each race and each deadlock: an order, a verification or the
script against another, beside the API's start. One fault suffices: a second one starts from a state of the first.

In `mail`, only the workers of `Delivery` are fair (Kafka hands an event out until it is acknowledged, section 4), and
failures are at most `MaxFailures`: a mail whose text can never be indexed fails for ever all the same. Readers, clients
and senders may stop at any time. Sections 6 to 9 give the bounds of each part.

Deadlock checking is on in the `store` runs: TLC finds no state where the whole system is stuck. It is
off in the `queue` runs and in `mail`, whose inputs and faults are bounded, and in `provisioning`: the system may rest when
all is done.

Every property has a mutant in `PROJECT.json`: a plausible bug in one mapped definition under which the property fails.

## 11. What the violations show

* `store_no_grace`: gc.py:50 and ARCHITECTURE.md:707 say the foreign keys make the store safe at
  a grace period of zero. They guard rows. A chunk **object** that an open delivery has uploaded, and whose row
  another delivery has meanwhile created and lost, is deleted by the sweep before the first delivery inserts its row. A grace period
  of at least twice the longest delivery excludes it: the same property holds in `store_shared_chunk`, and for all constants by
  theorem `CopiesServed`. Once the longest delivery would not do: with `TxnBound` 2 and `Grace` 3, TLC still finds the property violated.
* `store_sweep_crash`: gc.py:25 says a crash needs no recovery. A crash between the S3 delete and the commit
  leaves chunk rows without objects, and the next delivery of the same bytes trusts the rows. The comment at gc.py:322
  knows and accepts this. The other runs have `CrashAfterS3` FALSE; a sweep may crash anywhere else.
* `queue_backlog`: main.py:62 and HLD.md:479 say that nothing is lost when a worker gives up, and
  apply_raw_retention.py:23 that the seven days are no correctness boundary. They are one, for what stands on or behind a poison
  record: the event is kept, its mail expires, and no repair brings it back.
* `queue_rebalance`: main.py:7 says no two workers ever see the same message. A rebalance shows them the same record. The
  replay guard makes it harmless, and its comment (pipeline.py:72) expects it.

## 12. Proofs

### AttachmentStore

`AttachmentStore_proofs.tla` proves, for all values of the constants that satisfy `StoreConstants` and hence also for `Grace` 0
and with `CrashAfterS3`:

| theorem | |
|---|---|
| `Invariance` | `Spec => []IInv` |
| `TypeCorrect` | `Spec => []TypeOK` |
| `CountersExact` | `Spec => []RefcountsExact` |
| `ClockExact` | `Spec => []ClockRunsIffGarbage` |
| `SweepsFinish` | `Spec => []SweepNeverRaises` |
| `MailKept` | `Spec => SweepKeepsMail` |
| `MailboxBytesExact` | `Spec => []UsedBytesExact` |

None of these invariants is inductive: a commit adds to a refcount what the transaction recorded several steps earlier, so the
invariant must say what open transactions hold. `IInv` has three parts.

* `Stored`, over committed rows: types, foreign keys (`Referenced`) and exact counters (`Counted`).
* `Delivery(w, t)`, per open delivery: where its cursors stand (`Cursors`); that the map rows it has not inserted
  itself are committed and those of its own new blob are all its own (`Mapped`); that no other process holds what it
  holds (`Alone`).
* `Reclaiming(g, s)`, per sweep: the orphans it has locked are still orphans when it deletes, the blobs it has locked are still at refcount 0
  and unlinked from commit on, the chunks it has deleted are unreferenced, and no other process holds them.

The last two are where row locks enter the proof. The argument has one lemma per action, under it one step per
conjunct that the action disturbs; facts about cardinalities of the counted sets are lemmas of their own. TLC checked `IInv` as an
invariant first. `TypeCorrect` is proved alone and used by the rest.

`MailboxBytesExact` takes an argument of its own. `used` is compared with a sum, which the
community modules define by recursion over a finite set, so what the sum does when a copy comes or goes (`WeightStep`, `WeightRemove`) needs an
induction. `SubsetInduction` is one that the provers can use: the property is a *set* of subsets, and a smallest subset outside it,
which exists because strict inclusion is well-founded on finite sets, would have it.

`AttachmentObjects_proofs.tla` continues over `IInv`, in layers; each is inductive once those before it are known.

| theorem | | if |
|---|---|---|
| `OverdueInvariance` | `Spec => []Overdue` | |
| `GraceServed` | `Spec => GraceIsServed` | |
| `ChunkOwners` | `Spec => []Owned` | |
| `ObjectsStay` | `Spec => []Objects` | `GraceCovers` |
| `BlobsComplete` | `Spec => []BlobRowsAreComplete` | `GraceCovers` |
| `AttachmentsLinked` | `Spec => []Carried` | |
| `CopiesServed` | `Spec => []EveryCopyIsServed` | `GraceCovers` |
| `StoreImplementsInbox` | `Spec => ImplementsInbox` | `GraceCovers` |

* `Overdue`: a blob that a sweep holds has been idle for more than `Grace`, and stays so: nobody else writes a locked row.
* `Owned`: the chunk rows an open delivery has inserted are in no table and in no other transaction (the unique key), and no two sweeps hold
  the same chunk.
* `Objects`: every chunk row has its object, unless a sweep is about to commit the row's deletion; and so has every chunk that an open delivery
  found missing and has uploaded. If another delivery has meanwhile committed a row for such a chunk, then some row of a blob holds it whose clock is no
  older than `TxnBound` plus the first delivery's age, hence no older than `2 * TxnBound`, and by `Overdue` no sweep frees it. It is twice
  because the clock of a blob that was delivered to nobody begins with the transaction that stored it, not with its commit.
* `Carried`: a committed message is linked to each attachment of its mail.

`GraceCovers` is `2 * TxnBound <= Grace` and not `CrashAfterS3`. Both halves are needed (section 11), and the code has the first by far: a
day against the minutes of a delivery. The second is the accepted gap of gc.py:322. The refinement takes the copies that can be served for the
inbox; with `CopiesServed` these are all copies, and each step maps to a delivery, a delete of the owner, or a stutter.

Checked by TLC only: `GarbageIsReclaimed`, which is liveness.

### MailQueue

`MailQueue_proofs.tla` proves, for any number of mails, sendings, partitions, workers, attempts and faults:

| theorem | |
|---|---|
| `QueueTypeCorrect` | `Spec => []TypeOK`, inductive as it stands |
| `OffsetsSafe` | `Spec => []AckedIsProcessed` |
| `DeliveredOnce` | `Spec => []EventsDeliverOnce` |
| `AcceptedKept` | `Spec => []AcceptedIsKept` |
| `EventsStored` | `Spec => []EventsHaveTheirMail`, if `Poison = {}` |

* Offsets (`Consuming`): a commit writes positions, and positions run ahead of what is done. Strengthened by `Fetched`:
  before the position of a partition in somebody's hands, every record is committed, or is the one its owner is handling. A worker
  polls only when it has nothing in hand, so at its next `Ack` all of them are committed; who loses a partition loses its position.
* Delivered once (`Guarded`): workers inside their transactions hold different keys, none of them committed.
* Acceptance (`Kept`): `Data` says 250 only with its event in the log, and a sender believes only its latest sending.
  Together with the offsets' invariant this gives `AcceptedIsKept`.
* Mail of events (`Stored`): raw mail is lost early only behind a record that cannot be processed, and without poison such a
  record would itself have to have lost its raw mail first. With poison the property is false: `queue_backlog`.

Only TLC checks `DeliveredUnlessBlocked`: it is liveness.

### Provisioning

`Provisioning_proofs.tla` proves, for any number of resellers, domains, keys, handlers and faults, and any orders:

| theorem | |
|---|---|
| `ProvisioningInvariant` | `Spec => []ProvisioningInv` |
| `ProvisioningTypes` | `Spec => []TypeOK` |
| `OrdersWhole` | `Spec => []OrdersAreWhole` |
| `CacheNeverStale` | `Spec => []CacheIsNeverStale` |
| `NoGap` | `Spec => []NoSilentGap` |

`OrdersAreWhole` is about committed rows, and a commit adds rows inserted many steps ago. `ProvisioningInv` says of each handler what it may
rely on at its program counter (`JobOK`: its key is no order's, its new domain is nobody's, its rows are not in the table, what it is about to publish is
deliverable), and of each two that they hold no key, domain or mailbox in common (`Apart`, which the waiting of INSERTs
gives). `NoSilentGap` needs the order *commit, then read the flag*: a verification that commits
after the order's read sees the order's rows.

### Session

`SessionInvariant` (`SessionSpec => []SessionInv`) and `EventsAreTrue` (`SessionSpec => []EventsNameTheirMail`), for any number of transfers. `SessionInv` says that a call of `Data`
that still can succeed has copied what its sender was told, and that a transfer the connection has left is broken or done.

### Delivery

`Delivery_proofs.tla` proves, for every set of pointers, envelopes, workers and failures:

| theorem | |
|---|---|
| `MailInvariant` | `MailSpec => []MailInv` |
| `CopiesStay`, `ThreadsStay` | `MailSpec => []CopiesStayInTenant`, `[]ThreadsStayInTenant` |
| `RecipientsServed` | `MailSpec => []RecipientsAreServed` |
| `DeliveredFound` | `MailSpec => []DeliveredIsFound` |

`MailInv` says of each open transaction that the groups it has routed have exactly the copies they should (`Routed`), that its index rows are those of its copies but the
group in hand, and that no two transactions have the same event.

### Reading

`Reading_proofs.tla` proves, for any copies, tenants, page size and number of calls and changes:

| theorem | |
|---|---|
| `ReadInvariant` | `ReadSpec => []ReadInv` |
| `ListSorted` | `ReadSpec => []ListIsSorted` |
| `NothingSkipped` | `ReadSpec => []NothingIsSkipped` |
| `ListShows` | `ReadSpec => []ListShowsItsView` |
| `SpinnersTrue` | `ReadSpec => []SpinnersAreTrue` |
| `WritesAreSingle` | `ReadSpec => WritesTouchOneCopy` |

The list on screen depends on requests that were sent before. `ReadInv` says of what is in the air that it continues the list where it ends
(`FlightsOK`: a further page of the latest call begins at the cursor, and everything in it is older), and of every steady copy that it is shown,
in the air, or behind the cursor (`SteadyOK`). `SpinnersAreTrue` is needed for the first: without it two further pages could be in the air and be appended twice.

### Download

`Download_proofs.tla` proves, for any files, chunk sizes, headers and breaks:

| theorem | |
|---|---|
| `GetInvariance` | `GetSpec => []GetIInv` |
| `RepliesAreRanges` | `GetSpec => []ReplyIsTheRange` |
| `DownloadsAreFiles` | `GetSpec => []DownloadIsTheFile` |

Most of it says what the recursive definitions compute, by the same induction as for the quota: `Begins` are the sums of the sizes
(`BeginsStep`), every position lies in one chunk (`ChunkOf`), and the bytes of a file are at each position those of the chunk that holds it (`FileHolds`).
`ParseRight` then says that `ranges.parse` finds the interval that `Wanted` counts byte by byte, and `FirstSlice` that reading the first slice of a window gives
the file up to some byte from which on the other slices are those of the rest of the window. So `GetIInv` can say of a reply under way (`Serving`) that
its body is the file from the window's first byte to `Position`, and that what is left to read is `SliceChunks` of the rest. What
a client holds is a beginning of the file (`Holding`), because a 206 is appended only where it fits.

Only TLC checks the liveness of these modules (`EveryRequestEnds`, `RestartHeals`, `MailsEnd`): liveness under fairness is out of the prover's reach.

## 13. Not modelled

* `DeleteCopy` in its two updates: a deadlock with `deliver` rolls one of the two back whole, which is a failed attempt of either.
* How modules meet. `MailQueue` takes an event as given, `Session` says what is in it; `Delivery` and `AttachmentStore` are two views of one
  transaction, with routing and tenants in one and shared attachments in the other. They are not composed into one state space.
* The threads view and the quota report: read-only queries behind the same visibility rule. A dry run of the sweep changes nothing.
* Full-text matching and ranking, the query grammar, MIME parsing and chunking: pure functions of text and bytes, which enter as constants.
* Password hashing, tokens, webhook signatures: single requests without state.
* In the web client: `useAsync`, login, the reading pane, the search chips.
* Service plumbing, seed and load-test scripts.

`PROJECT.json` has each of them as a component, or in a component's note.

----------------------------- MODULE MailQueue -----------------------------
(***************************************************************************)
(* How accepted mail reaches the delivery transaction: the receiver's Data *)
(* (smtp-receiver/session.go) stores the raw message and publishes an      *)
(* event, Kafka keeps it, the worker's loop (worker/main.py) handles and   *)
(* acknowledges it, and the bucket's lifecycle rule expires raw messages   *)
(* (scripts/apply_raw_retention.py).  Every process and every call may     *)
(* fail.  What process_event does inside its transaction is the subject of *)
(* AttachmentStore; here it commits or it does not.                        *)
(***************************************************************************)
EXTENDS Integers, Sequences, FiniteSets

CONSTANTS
    Mails,       \* what remote servers have to send
    TooBig,      \* those over MAX_MESSAGE_MB
    Poison,      \* those whose processing fails until a human has looked at them
    Partitions,  \* of the topic mail.received
    Workers,     \* processes of the consumer group
    Attempts,    \* 1 + Len(RETRY_DELAYS)
    MaxSends,    \* bound: how often a sender tries one mail
    MaxFaults,   \* bound: failures and needless rebalances in one behaviour
    NULL

ASSUME QueueConstants ==
    /\ TooBig \subseteq Mails /\ Poison \subseteq Mails
    /\ Attempts \in Nat \ {0} /\ MaxSends \in Nat /\ MaxFaults \in Nat
    /\ NULL \notin Workers

\* Every sending gets a fresh s3_key, which is also the event's key.
Keys == Mails \X (1..MaxSends)

VARIABLES
    sender,      \* what the sender knows of its mail
    sent,        \* how often it has sent it
    smtp,        \* where the receiver's Data is, per sending
    raw,         \* objects in the raw bucket
    log,         \* the partitions' records
    offset,      \* the group's committed offsets
    owner,       \* the group's assignment
    position,    \* the owner's fetch position in each partition
    worker,      \* the worker processes: [pc, key, attempt]
    processed,   \* processed_event keys
    deliveries,  \* how often an event's mail has been delivered
    sick,        \* poison mail nobody has looked at
    faults

receiver == <<sender, sent, smtp>>
kafka    == <<log, offset, owner, position>>
database == <<processed, deliveries>>
vars     == <<receiver, raw, kafka, worker, database, sick, faults>>

Down == [pc |-> "down", key |-> NULL, attempt |-> 1]
Live == {w \in Workers : worker[w].pc # "down"}

Open(k)    == smtp[k] \in {"put", "publish", "reply"}
Queued(k)  == \E p \in Partitions : \E i \in DOMAIN log[p] : log[p][i] = k
\* The raw mail is still needed.
Pending(k) == Open(k) \/ (Queued(k) /\ k \notin processed)

\* A record that no worker gets past stands before k, or is k.
Stuck(k)   == k \notin processed /\ (k[1] \in sick \/ k \notin raw)
Blocked(k) ==
    \E p \in Partitions : \E i, j \in DOMAIN log[p] :
        i <= j /\ log[p][j] = k /\ Stuck(log[p][i])

Fault == faults < MaxFaults /\ faults' = faults + 1

Init ==
    /\ sender = [m \in Mails |-> "queued"] /\ sent = [m \in Mails |-> 0]
    /\ smtp = [k \in Keys |-> "none"]
    /\ raw = {}
    /\ log = [p \in Partitions |-> <<>>] /\ offset = [p \in Partitions |-> 0]
    /\ owner = [p \in Partitions |-> NULL] /\ position = [p \in Partitions |-> 0]
    /\ worker = [w \in Workers |-> Down]
    /\ processed = {} /\ deliveries = [k \in Keys |-> 0]
    /\ sick = Poison
    /\ faults = 0

-----------------------------------------------------------------------------
(* The sender and the receiver's Data.                                     *)

\* The sender reads the answer to k, if it still waits for it.
Told(k, what) ==
    IF sender[k[1]] = "waiting" /\ sent[k[1]] = k[2]
    THEN [sender EXCEPT ![k[1]] = what] ELSE sender

\* Store first, publish second.
\* Mutant: the other way round.
PublishFirst == <<"publish", "put">>
DataSteps    == <<"put", "publish">>
After(step)  == IF step = DataSteps[1] THEN DataSteps[2] ELSE "reply"

\* What the sender hears of a failure: 451, keep the mail and try again.
\* Mutant: the error is dropped.
Swallowed   == "accepted"
TempFailure == "queued"

\* Data ends and the sender is told so.
Answer(k, what) == smtp' = [smtp EXCEPT ![k] = "over"] /\ sender' = Told(k, what)

Offer(m) ==
    /\ sender[m] = "queued" /\ sent[m] < MaxSends
    /\ sent' = [sent EXCEPT ![m] = @ + 1]
    /\ sender' = [sender EXCEPT ![m] = "waiting"]
    /\ smtp' = [smtp EXCEPT ![<<m, sent[m] + 1>>] = DataSteps[1]]
    /\ UNCHANGED <<raw, kafka, worker, database, sick, faults>>

\* Store.Put: the object is there, or the mail is too big (552, for good), or the
\* upload fails (451, try again) and may have stored it all the same.
Put(k) ==
    /\ smtp[k] = "put"
    /\ \/ /\ k[1] \notin TooBig
          /\ raw' = raw \cup {k}
          /\ smtp' = [smtp EXCEPT ![k] = After("put")]
          /\ UNCHANGED <<sender, faults>>
       \/ k[1] \in TooBig /\ Answer(k, "bounced") /\ UNCHANGED <<raw, faults>>
       \/ k[1] \notin TooBig /\ Fault /\ Answer(k, TempFailure) /\ raw' \in {raw, raw \cup {k}}
    /\ UNCHANGED <<sent, kafka, worker, database, sick>>

\* Events.Publish: the record is in its partition; an error (451) leaves open
\* whether it is.
Publish(k) ==
    /\ smtp[k] = "publish"
    /\ \/ /\ \E p \in Partitions : log' = [log EXCEPT ![p] = Append(@, k)]
          /\ smtp' = [smtp EXCEPT ![k] = After("publish")]
          /\ UNCHANGED <<sender, faults>>
       \/ /\ Fault /\ Answer(k, TempFailure)
          /\ log' \in {log} \cup {[log EXCEPT ![p] = Append(@, k)] : p \in Partitions}
    /\ UNCHANGED <<sent, raw, offset, owner, position, worker, database, sick>>

\* 250.
Reply(k) ==
    /\ smtp[k] = "reply"
    /\ Answer(k, "accepted")
    /\ UNCHANGED <<sent, raw, kafka, worker, database, sick, faults>>

\* The sender stops waiting, or the answer is lost; Data runs on.
HangUp(m) ==
    /\ sender[m] = "waiting" /\ Fault
    /\ sender' = [sender EXCEPT ![m] = "queued"]
    /\ UNCHANGED <<sent, smtp, raw, kafka, worker, database, sick>>

\* The receiver dies with all its sessions.
CrashReceiver ==
    /\ \E k \in Keys : Open(k)
    /\ Fault
    /\ smtp' = [k \in Keys |-> IF smtp[k] = "none" THEN "none" ELSE "over"]
    /\ sender' = [m \in Mails |-> IF sender[m] = "waiting" THEN "queued" ELSE sender[m]]
    /\ UNCHANGED <<sent, raw, kafka, worker, database, sick>>

-----------------------------------------------------------------------------
(* The consumer group.                                                     *)

\* Kafka assigns the partitions anew when a member is gone, has joined or was too
\* slow; it does not wait for what the members are doing.  The new owners start
\* from the committed offsets.
\* Mutant: the position survives.
PositionKept(p) == position[p]
Resumed(p)      == offset[p]
Assign ==
    /\ owner' \in [Partitions -> Live]
    /\ position' = [p \in Partitions |-> Resumed(p)]
    /\ UNCHANGED <<receiver, raw, log, offset, worker, database, sick>>
Unserved  == \E p \in Partitions : owner[p] = NULL
Reassign  == Unserved /\ Assign /\ UNCHANGED faults
Rebalance == ~Unserved /\ Fault /\ Assign

-----------------------------------------------------------------------------
(* The worker: run() and _handle().                                        *)

To(w, pc) == worker' = [worker EXCEPT ![w].pc = pc] /\ UNCHANGED owner

\* The process ends, and with it its membership of the group.
Exit(w) ==
    /\ worker' = [worker EXCEPT ![w] = Down]
    /\ owner' = [p \in Partitions |-> IF owner[p] = w THEN NULL ELSE owner[p]]

Start(w) ==
    /\ worker[w].pc = "down"
    /\ To(w, "poll")
    /\ UNCHANGED <<receiver, raw, log, offset, position, database, sick, faults>>

\* async for record in consumer
Poll(w, p) ==
    /\ worker[w].pc = "poll" /\ owner[p] = w
    /\ position[p] < Len(log[p])
    /\ position' = [position EXCEPT ![p] = @ + 1]
    /\ worker' = [worker EXCEPT ![w].pc = "claim", ![w].key = log[p][position[p] + 1]]
    /\ UNCHANGED <<receiver, raw, log, offset, owner, database, sick, faults>>

\* An attempt fails and is rolled back: again, or exit without acknowledging.
\* Mutants: one attempt too many; the last failure is retried like the others.
OneMore(n)   == n > Attempts
Exhausted(n) == n = Attempts
Retry(w) ==
    /\ worker' = [worker EXCEPT ![w].pc = "claim", ![w].attempt = @ + 1]
    /\ UNCHANGED owner
Insists(w) == IF Exhausted(worker[w].attempt) THEN To(w, "claim") ELSE Retry(w)
Failed(w)  == IF Exhausted(worker[w].attempt) THEN Exit(w) ELSE Retry(w)

\* The replay guard: skip what is committed, wait for who holds it uncommitted.
\* Mutant: no guard.
Unguarded(k) == TRUE
Fresh(k)     == k \notin processed
Claim(w) ==
    /\ worker[w].pc = "claim"
    /\ \A v \in Workers \ {w} : worker[v].pc \in {"read", "commit"} => worker[v].key # worker[w].key
    /\ To(w, IF Fresh(worker[w].key) THEN "read" ELSE "ack")
    /\ UNCHANGED <<receiver, raw, log, offset, position, database, sick, faults>>

\* open_raw_message and all that follows inside the transaction.
Read(w) ==
    /\ worker[w].pc = "read"
    /\ IF worker[w].key \in raw /\ worker[w].key[1] \notin sick THEN To(w, "commit") ELSE Failed(w)
    /\ UNCHANGED <<receiver, raw, log, offset, position, database, sick, faults>>

\* COMMIT.  Its answer may be lost: then a committed attempt is taken for a
\* failed one.
CommitEvent(w) ==
    /\ worker[w].pc = "commit"
    /\ processed' = processed \cup {worker[w].key}
    /\ deliveries' = [deliveries EXCEPT ![worker[w].key] = @ + 1]
    /\ \/ To(w, "ack") /\ UNCHANGED faults
       \/ Failed(w) /\ Fault
    /\ UNCHANGED <<receiver, raw, log, offset, position, sick>>

\* consumer.commit(): the positions of the partitions this worker owns now.
\* Mutant: of all partitions.
EveryPosition(w, p) == position[p]
Consumed(w, p)      == IF owner[p] = w THEN position[p] ELSE offset[p]
Ack(w) ==
    /\ worker[w].pc = "ack"
    /\ offset' = [p \in Partitions |-> Consumed(w, p)]
    /\ worker' = [worker EXCEPT ![w] = [Down EXCEPT !.pc = "poll"]]
    /\ UNCHANGED <<receiver, raw, log, owner, position, database, sick, faults>>

\* A deadlock, an S3 or database error before the commit.
Hiccup(w) ==
    /\ worker[w].pc \in {"claim", "read", "commit"} /\ Fault
    /\ Failed(w)
    /\ UNCHANGED <<receiver, raw, log, offset, position, database, sick>>

\* Killed; or consumer.commit() raises because the group has moved on.
CrashWorker(w) ==
    /\ worker[w].pc # "down" /\ Fault
    /\ Exit(w)
    /\ UNCHANGED <<receiver, raw, log, offset, position, database, sick>>

-----------------------------------------------------------------------------
(* The lifecycle rule, and the operator.                                   *)

\* An object expires at some time after RETENTION_DAYS.  The assumption is that
\* an event still needs it by then only if its partition is blocked.
Expire(k) ==
    /\ k \in raw
    /\ ~Pending(k) \/ (~Open(k) /\ Blocked(k))
    /\ raw' = raw \ {k}
    /\ UNCHANGED <<receiver, kafka, worker, database, sick, faults>>

Repair(m) ==
    /\ m \in sick
    /\ sick' = sick \ {m}
    /\ UNCHANGED <<receiver, raw, kafka, worker, database, faults>>

Work(w) ==
    \/ Start(w) \/ Claim(w) \/ Read(w) \/ CommitEvent(w) \/ Ack(w)
    \/ \E p \in Partitions : Poll(w, p)

Next ==
    \/ \E m \in Mails : Offer(m) \/ HangUp(m) \/ Repair(m)
    \/ \E k \in Keys : Put(k) \/ Publish(k) \/ Reply(k) \/ Expire(k)
    \/ CrashReceiver
    \/ Reassign \/ Rebalance
    \/ \E w \in Workers : Work(w) \/ Hiccup(w) \/ CrashWorker(w)

Spec == Init /\ [][Next]_vars

\* Workers run and are restarted, the group serves every partition, a human looks
\* at poison mail in the end.  Nothing forces a sender, a fault or an expiry.
\* "async for record in consumer" takes no side among the partitions it owns: what
\* comes first after a restart is not fixed, and no partition waits for ever for a
\* worker that is ready for it again and again.
Fairness ==
    /\ \A w \in Workers : WF_vars(Work(w))
    /\ \A p \in Partitions : SF_vars(\E w \in Workers : Poll(w, p))
    /\ WF_vars(Reassign)
    /\ \A m \in Mails : WF_vars(Repair(m))

FairSpec == Spec /\ Fairness

-----------------------------------------------------------------------------
(* Properties.                                                             *)

\* Every variable has its type; a worker past "poll" has a record.
TypeOK ==
    /\ sender \in [Mails -> {"queued", "waiting", "accepted", "bounced"}]
    /\ sent \in [Mails -> 0..MaxSends]
    /\ smtp \in [Keys -> {"none", "put", "publish", "reply", "over"}]
    /\ raw \subseteq Keys
    /\ log \in [Partitions -> Seq(Keys)]
    /\ offset \in [Partitions -> Nat] /\ position \in [Partitions -> Nat]
    /\ owner \in [Partitions -> Workers \cup {NULL}]
    /\ worker \in [Workers -> [pc : {"down", "poll", "claim", "read", "commit", "ack"},
                               key : Keys \cup {NULL}, attempt : 1..Attempts]]
    /\ \A w \in Workers : worker[w].pc \notin {"down", "poll"} => worker[w].key \in Keys
    /\ processed \subseteq Keys
    /\ deliveries \in [Keys -> Nat]
    /\ sick \subseteq Mails
    /\ faults \in 0..MaxFaults

\* worker/main.py: the offset moves only past records whose transaction has
\* been committed, whatever the group does meanwhile.
AckedIsProcessed ==
    \A p \in Partitions : \A i \in 1..offset[p] : log[p][i] \in processed

\* pipeline.py, HLD 9.1: an event is delivered at most once, although two
\* workers can hold it at the same time and a commit's answer can be lost.
EventsDeliverOnce == \A k \in Keys : deliveries[k] <= 1

\* session.go: an event never points at an object that does not exist.
EventsHaveTheirMail == \A k \in Keys : Queued(k) /\ k \notin processed => k \in raw

\* session.go, worker/main.py: once the sender has its 250 and forgets the mail,
\* some sending of it has been delivered or will still be consumed.
AcceptedIsKept ==
    \A m \in Mails : sender[m] = "accepted" =>
        \E k \in {m} \X (1..sent[m]) :
            \/ k \in processed
            \/ \E p \in Partitions : \E i \in DOMAIN log[p] : i > offset[p] /\ log[p][i] = k

Delivered(m) == \E k \in {m} \X (1..sent[m]) : k \in processed

\* worker/main.py: a poison message halts its partition from its record on, and
\* no other, although the worker that stops at it has other partitions to serve.
\* In the end every accepted mail is delivered, or each event of it stands behind a
\* record of its own partition that cannot be processed.
DeliveredUnlessBlocked ==
    \A m \in Mails :
        <>[](sender[m] = "accepted" =>
                \/ Delivered(m)
                \/ \A k \in {m} \X (1..sent[m]) : Queued(k) => Blocked(k))

\* worker/main.py: the group splits the partitions, and no two workers ever see
\* the same message (at the same time; a restarted worker sees it again).
NeverShared ==
    \A w \in Workers : \A v \in Workers \ {w} :
        worker[w].pc \notin {"down", "poll"} /\ worker[v].pc \notin {"down", "poll"} =>
            worker[w].key # worker[v].key

\* worker/main.py: nothing is lost; accepted mail is delivered when the worker
\* comes back.
AcceptedIsDelivered == \A m \in Mails : sender[m] = "accepted" ~> Delivered(m)
=============================================================================

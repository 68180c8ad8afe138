------------------------- MODULE MailQueue_proofs --------------------------
(***************************************************************************)
(* Theorems about MailQueue, for any number of mails, sendings, partitions, *)
(* workers and faults.                                                     *)
(***************************************************************************)
EXTENDS MailQueue, TLAPS

-----------------------------------------------------------------------------
(* Types.                                                                  *)

\* What one handler's new process state looks like.
WorkerType == [pc : {"down", "poll", "claim", "read", "commit", "ack"},
               key : Keys \cup {NULL}, attempt : 1..Attempts]

\* A worker at a named step of a record keeps TypeOK when it moves on.
LEMMA StepTypes ==
    ASSUME TypeOK, NEW w \in Workers,
           NEW pc \in {"poll", "claim", "read", "commit", "ack"},
           worker[w].key \in Keys \/ pc = "poll", To(w, pc)
    PROVE  /\ worker' \in [Workers -> WorkerType]
           /\ \A v \in Workers : worker'[v].pc \notin {"down", "poll"} => worker'[v].key \in Keys
           /\ owner' = owner
<1> DEFINE new == [worker[w] EXCEPT !.pc = pc]
<1>1. worker \in [Workers -> WorkerType]
  BY DEF TypeOK, WorkerType
<1>2. new \in WorkerType /\ new.pc = pc /\ new.key = worker[w].key
  BY <1>1 DEF WorkerType
<1>3. worker' = [worker EXCEPT ![w] = new] /\ owner' = owner
  BY DEF To
<1>4. \A v \in Workers : worker'[v] = IF v = w THEN new ELSE worker[v]
  BY <1>1, <1>3
<1> HIDE DEF new
<1>5. worker' \in [Workers -> WorkerType]
  BY <1>1, <1>2, <1>3
<1>6. \A v \in Workers : worker'[v].pc \notin {"down", "poll"} => worker'[v].key \in Keys
  BY <1>2, <1>4 DEF TypeOK
<1>7. QED
  BY <1>3, <1>5, <1>6

LEMMA ExitTypes ==
    ASSUME QueueConstants, TypeOK, NEW w \in Workers, Exit(w)
    PROVE  /\ worker' \in [Workers -> WorkerType]
           /\ \A v \in Workers : worker'[v].pc \notin {"down", "poll"} => worker'[v].key \in Keys
           /\ owner' \in [Partitions -> Workers \cup {NULL}]
BY DEF QueueConstants, TypeOK, WorkerType, Exit, Down

LEMMA FailedTypes ==
    ASSUME QueueConstants, TypeOK, NEW w \in Workers, worker[w].key \in Keys, Failed(w)
    PROVE  /\ worker' \in [Workers -> WorkerType]
           /\ \A v \in Workers : worker'[v].pc \notin {"down", "poll"} => worker'[v].key \in Keys
           /\ owner' \in [Partitions -> Workers \cup {NULL}]
<1>1. CASE Exhausted(worker[w].attempt)
  BY <1>1, ExitTypes DEF Failed
<1>2. CASE ~Exhausted(worker[w].attempt)
  <2>1. worker[w].attempt + 1 \in 1..Attempts
    BY <1>2 DEF TypeOK, Exhausted, QueueConstants
  <2> DEFINE new == [worker[w] EXCEPT !.pc = "claim", !.attempt = @ + 1]
  <2>2. worker \in [Workers -> WorkerType]
    BY DEF TypeOK, WorkerType
  <2>3. new \in WorkerType /\ new.key = worker[w].key
    BY <2>1, <2>2 DEF WorkerType
  <2>4. worker' = [worker EXCEPT ![w] = new] /\ owner' = owner
    BY <1>2 DEF Failed, Retry
  <2>5. \A v \in Workers : worker'[v] = IF v = w THEN new ELSE worker[v]
    BY <2>2, <2>4
  <2> HIDE DEF new
  <2>6. worker' \in [Workers -> WorkerType]
    BY <2>2, <2>3, <2>4
  <2>7. \A v \in Workers : worker'[v].pc \notin {"down", "poll"} => worker'[v].key \in Keys
    BY <2>3, <2>5 DEF TypeOK
  <2>8. QED
    BY <2>4, <2>6, <2>7 DEF TypeOK
<1>3. QED
  BY <1>1, <1>2

\* One record more in one partition: what the log's readers see of it.
LEMMA Appended ==
    ASSUME NEW p \in Partitions, NEW k \in Keys,
           log \in [Partitions -> Seq(Keys)],
           log' = [log EXCEPT ![p] = Append(@, k)]
    PROVE  /\ log' \in [Partitions -> Seq(Keys)]
           /\ \A q \in Partitions :
                /\ Len(log[q]) \in Nat /\ Len(log'[q]) >= Len(log[q])
                /\ \A i \in 1..Len(log[q]) : log'[q][i] = log[q][i]
           /\ \A j \in Keys : Queued(j)' <=> Queued(j) \/ j = k
<1>1. /\ log' \in [Partitions -> Seq(Keys)]
      /\ \A q \in Partitions : q # p => log'[q] = log[q]
      /\ log'[p] = Append(log[p], k)
  OBVIOUS
<1>2. /\ Len(log'[p]) = Len(log[p]) + 1
      /\ \A i \in 1..Len(log[p]) : log'[p][i] = log[p][i]
      /\ log'[p][Len(log[p]) + 1] = k
  BY <1>1
<1>3. \A q \in Partitions : Len(log[q]) \in Nat /\ Len(log'[q]) >= Len(log[q])
  BY <1>1, <1>2
<1>4. ASSUME NEW j \in Keys
      PROVE  Queued(j)' <=> Queued(j) \/ j = k
  <2>1. Queued(j) => Queued(j)'
    BY <1>1, <1>2 DEF Queued
  <2>2. j = k => Queued(j)'
    BY <1>1, <1>2 DEF Queued
  <2>3. Queued(j)' => Queued(j) \/ j = k
    BY <1>1, <1>2 DEF Queued
  <2>4. QED
    BY <2>1, <2>2, <2>3
<1>5. QED
  BY <1>1, <1>2, <1>3, <1>4

\* The answer the sender hears is one of its states.
LEMMA AnswerTypes ==
    ASSUME TypeOK, NEW k \in Keys, NEW what \in {"queued", "accepted", "bounced"}, Answer(k, what)
    PROVE  /\ smtp' \in [Keys -> {"none", "put", "publish", "reply", "over"}]
           /\ sender' \in [Mails -> {"queued", "waiting", "accepted", "bounced"}]
BY DEF TypeOK, Answer, Told, Keys

LEMMA FaultTypes ==
    ASSUME QueueConstants, TypeOK, Fault
    PROVE  faults' \in 0..MaxFaults
BY DEF QueueConstants, TypeOK, Fault

\* TypeOK is inductive as it stands.
LEMMA TypeInductive == QueueConstants /\ TypeOK /\ [Next]_vars => TypeOK'
<1> SUFFICES ASSUME QueueConstants, TypeOK, [Next]_vars PROVE TypeOK'
  OBVIOUS
<1> USE DEF receiver, kafka, database
<1>1. ASSUME NEW m \in Mails, Offer(m) PROVE TypeOK'
  <2>1. <<m, sent[m] + 1>> \in Keys /\ sent[m] + 1 \in 0..MaxSends
    BY <1>1 DEF Offer, TypeOK, Keys, QueueConstants
  <2>2. smtp' \in [Keys -> {"none", "put", "publish", "reply", "over"}]
    BY <1>1, <2>1 DEF Offer, TypeOK, DataSteps
  <2>3. QED
    BY <1>1, <2>1, <2>2 DEF Offer, TypeOK
<1>2. ASSUME NEW m \in Mails, HangUp(m) PROVE TypeOK'
  BY <1>2, FaultTypes DEF HangUp, TypeOK
<1>3. ASSUME NEW m \in Mails, Repair(m) PROVE TypeOK'
  BY <1>3 DEF Repair, TypeOK
<1>4. ASSUME NEW k \in Keys, Put(k) PROVE TypeOK'
  <2>1. /\ smtp' \in [Keys -> {"none", "put", "publish", "reply", "over"}]
        /\ sender' \in [Mails -> {"queued", "waiting", "accepted", "bounced"}]
    BY <1>4, AnswerTypes DEF Put, TypeOK, After, DataSteps, TempFailure
  <2>2. faults' \in 0..MaxFaults /\ raw' \subseteq Keys
    BY <1>4, FaultTypes DEF Put, TypeOK
  <2>3. QED
    BY <1>4, <2>1, <2>2 DEF Put, TypeOK
<1>5. ASSUME NEW k \in Keys, Publish(k) PROVE TypeOK'
  <2>1. /\ smtp' \in [Keys -> {"none", "put", "publish", "reply", "over"}]
        /\ sender' \in [Mails -> {"queued", "waiting", "accepted", "bounced"}]
    BY <1>5, AnswerTypes DEF Publish, TypeOK, After, DataSteps, TempFailure
  <2>2. faults' \in 0..MaxFaults
    BY <1>5, FaultTypes DEF Publish, TypeOK
  <2>3. log' \in [Partitions -> Seq(Keys)]
    <3>1. CASE log' = log
      BY <3>1 DEF TypeOK
    <3>2. ASSUME NEW p \in Partitions, log' = [log EXCEPT ![p] = Append(@, k)]
          PROVE  log' \in [Partitions -> Seq(Keys)]
      BY <3>2, Appended DEF TypeOK
    <3>3. QED
      BY <1>5, <3>1, <3>2 DEF Publish
  <2>4. QED
    BY <1>5, <2>1, <2>2, <2>3 DEF Publish, TypeOK
<1>6. ASSUME NEW k \in Keys, Reply(k) PROVE TypeOK'
  BY <1>6, AnswerTypes DEF Reply, TypeOK
<1>7. ASSUME NEW k \in Keys, Expire(k) PROVE TypeOK'
  BY <1>7 DEF Expire, TypeOK
<1>8. CASE CrashReceiver
  BY <1>8, FaultTypes DEF CrashReceiver, TypeOK
<1>9. CASE Reassign \/ Rebalance
  <2>1. /\ owner' \in [Partitions -> Workers \cup {NULL}]
        /\ position' \in [Partitions -> Nat]
    BY <1>9 DEF Reassign, Rebalance, Assign, Live, Resumed, TypeOK
  <2>2. faults' \in 0..MaxFaults
    BY <1>9, FaultTypes DEF Reassign, Rebalance, TypeOK
  <2>3. QED
    BY <1>9, <2>1, <2>2 DEF Reassign, Rebalance, Assign, TypeOK
<1>10. ASSUME NEW w \in Workers, Start(w) PROVE TypeOK'
  BY <1>10, StepTypes DEF Start, TypeOK, WorkerType
<1>11. ASSUME NEW w \in Workers, NEW p \in Partitions, Poll(w, p) PROVE TypeOK'
  <2>1. log[p][position[p] + 1] \in Keys
    BY <1>11 DEF Poll, TypeOK
  <2> DEFINE new == [worker[w] EXCEPT !.pc = "claim", !.key = log[p][position[p] + 1]]
  <2>2. worker \in [Workers -> WorkerType] /\ position' \in [Partitions -> Nat]
    BY <1>11 DEF Poll, TypeOK, WorkerType
  <2>3. new \in WorkerType /\ new.key \in Keys
    BY <2>1, <2>2 DEF WorkerType
  <2>4. worker' = [worker EXCEPT ![w] = new]
    BY <1>11 DEF Poll
  <2>5. \A v \in Workers : worker'[v] = IF v = w THEN new ELSE worker[v]
    BY <2>2, <2>4
  <2> HIDE DEF new
  <2>6. worker' \in [Workers -> WorkerType]
    BY <2>2, <2>3, <2>4
  <2>7. \A v \in Workers : worker'[v].pc \notin {"down", "poll"} => worker'[v].key \in Keys
    BY <2>3, <2>5 DEF TypeOK
  <2>8. QED
    BY <1>11, <2>2, <2>6, <2>7 DEF Poll, TypeOK, WorkerType
<1>12. ASSUME NEW w \in Workers, Claim(w) PROVE TypeOK'
  <2>1. PICK pc \in {"read", "ack"} : To(w, pc)
    BY <1>12 DEF Claim
  <2>2. worker[w].key \in Keys
    BY <1>12 DEF Claim, TypeOK
  <2>3. QED
    BY <1>12, <2>1, <2>2, StepTypes DEF Claim, TypeOK, WorkerType
<1>13. ASSUME NEW w \in Workers, Read(w) PROVE TypeOK'
  <2>1. worker[w].key \in Keys
    BY <1>13 DEF Read, TypeOK
  <2>2. QED
    BY <1>13, <2>1, StepTypes, FailedTypes DEF Read, TypeOK, WorkerType
<1>14. ASSUME NEW w \in Workers, CommitEvent(w) PROVE TypeOK'
  <2>1. worker[w].key \in Keys
    BY <1>14 DEF CommitEvent, TypeOK
  <2>2. processed' \subseteq Keys /\ deliveries' \in [Keys -> Nat] /\ faults' \in 0..MaxFaults
    BY <1>14, <2>1, FaultTypes DEF CommitEvent, TypeOK
  <2>3. QED
    BY <1>14, <2>1, <2>2, StepTypes, FailedTypes DEF CommitEvent, TypeOK, WorkerType
<1>15. ASSUME NEW w \in Workers, Ack(w) PROVE TypeOK'
  <2> DEFINE new == [Down EXCEPT !.pc = "poll"]
  <2>1. worker \in [Workers -> WorkerType] /\ offset' \in [Partitions -> Nat]
    BY <1>15 DEF Ack, Consumed, TypeOK, WorkerType
  <2>2. new \in WorkerType /\ new.pc = "poll"
    BY DEF WorkerType, Down, QueueConstants
  <2>3. worker' = [worker EXCEPT ![w] = new]
    BY <1>15 DEF Ack
  <2>4. \A v \in Workers : worker'[v] = IF v = w THEN new ELSE worker[v]
    BY <2>1, <2>3
  <2> HIDE DEF new
  <2>5. worker' \in [Workers -> WorkerType]
    BY <2>1, <2>2, <2>3
  <2>6. \A v \in Workers : worker'[v].pc \notin {"down", "poll"} => worker'[v].key \in Keys
    BY <2>2, <2>4 DEF TypeOK
  <2>7. QED
    BY <1>15, <2>1, <2>5, <2>6 DEF Ack, TypeOK, WorkerType
<1>16. ASSUME NEW w \in Workers, Hiccup(w) PROVE TypeOK'
  <2>1. worker[w].key \in Keys
    BY <1>16 DEF Hiccup, TypeOK
  <2>2. QED
    BY <1>16, <2>1, FailedTypes, FaultTypes DEF Hiccup, TypeOK, WorkerType
<1>17. ASSUME NEW w \in Workers, CrashWorker(w) PROVE TypeOK'
  BY <1>17, ExitTypes, FaultTypes DEF CrashWorker, TypeOK, WorkerType
<1>18. CASE UNCHANGED vars
  BY <1>18 DEF vars, TypeOK
<1>19. QED
  BY <1>1, <1>2, <1>3, <1>4, <1>5, <1>6, <1>7, <1>8, <1>9, <1>10, <1>11, <1>12, <1>13,
     <1>14, <1>15, <1>16, <1>17, <1>18 DEF Next, Work

LEMMA TypeInitially == QueueConstants /\ Init => TypeOK
BY DEF QueueConstants, Init, TypeOK, Down

\* Every state of every behaviour is well typed; in particular a worker past
\* its poll always holds a record (worker/main.py: _handle).
THEOREM QueueTypeCorrect == Spec => []TypeOK
<1>1. Init => TypeOK
  BY QueueConstants, TypeInitially
<1>2. TypeOK /\ [Next]_vars => TypeOK'
  BY QueueConstants, TypeInductive
<1>3. QED
  BY <1>1, <1>2, PTL DEF Spec

-----------------------------------------------------------------------------
(* What the workers' ways to move leave alone.                             *)

\* All workers but w stay where they are.
Alone(w) == \A v \in Workers \ {w} : worker'[v] = worker[v]

LEMMA ToMoves ==
    ASSUME TypeOK, NEW w \in Workers, NEW pc, To(w, pc)
    PROVE  /\ Alone(w) /\ owner' = owner
           /\ worker'[w].pc = pc /\ worker'[w].key = worker[w].key
BY DEF TypeOK, To, Alone

LEMMA ExitMoves ==
    ASSUME TypeOK, NEW w \in Workers, Exit(w)
    PROVE  /\ Alone(w) /\ worker'[w].pc = "down"
           /\ owner' = [p \in Partitions |-> IF owner[p] = w THEN NULL ELSE owner[p]]
BY DEF TypeOK, Exit, Alone, Down

\* A failed attempt ends the process or claims the same record again.
LEMMA FailedMoves ==
    ASSUME TypeOK, NEW w \in Workers, Failed(w)
    PROVE  /\ Alone(w)
           /\ \/ /\ worker'[w].pc = "down"
                 /\ owner' = [p \in Partitions |-> IF owner[p] = w THEN NULL ELSE owner[p]]
              \/ /\ worker'[w].pc = "claim" /\ worker'[w].key = worker[w].key
                 /\ owner' = owner
<1>1. CASE Exhausted(worker[w].attempt)
  BY <1>1, ExitMoves DEF Failed
<1>2. CASE ~Exhausted(worker[w].attempt)
  <2> DEFINE new == [worker[w] EXCEPT !.pc = "claim", !.attempt = @ + 1]
  <2>1. worker' = [worker EXCEPT ![w] = new] /\ owner' = owner
    BY <1>2 DEF Failed, Retry
  <2>2. worker[w] \in WorkerType /\ worker \in [Workers -> WorkerType]
    BY DEF TypeOK, WorkerType
  <2>3. new.pc = "claim" /\ new.key = worker[w].key
    BY <2>2 DEF WorkerType
  <2> HIDE DEF new
  <2>4. QED
    BY <2>1, <2>2, <2>3 DEF Alone
<1>3. QED
  BY <1>1, <1>2

-----------------------------------------------------------------------------
(* An event is delivered at most once.  Two workers may hold its record at *)
(* the same time; what keeps them apart is the replay guard: inside their  *)
(* transactions they hold different keys, and none that is committed.      *)

Inside(w) == worker[w].pc \in {"read", "commit"}

Guarded ==
    /\ \A w \in Workers : Inside(w) =>
        /\ worker[w].key \notin processed
        /\ \A v \in Workers \ {w} : Inside(v) => worker[v].key # worker[w].key
    /\ \A k \in Keys : deliveries[k] = IF k \in processed THEN 1 ELSE 0

\* A worker that does not enter a transaction disturbs nothing.
LEMMA OutsideGuard ==
    ASSUME TypeOK, Guarded, NEW w \in Workers, Alone(w), UNCHANGED database,
           worker'[w].pc \in {"read", "commit"} => Inside(w) /\ worker'[w].key = worker[w].key
    PROVE  Guarded'
<1>1. \A v \in Workers : Inside(v)' => Inside(v) /\ worker'[v].key = worker[v].key
  BY DEF Inside, Alone
<1>2. processed' = processed /\ deliveries' = deliveries
  BY DEF database
<1>3. QED
  BY <1>1, <1>2 DEF Guarded

LEMMA GuardInductive == TypeOK /\ Guarded /\ [Next]_vars => Guarded'
<1> SUFFICES ASSUME TypeOK, Guarded, [Next]_vars PROVE Guarded'
  OBVIOUS
<1>1. CASE UNCHANGED <<worker, database>>
  BY <1>1 DEF Guarded, Inside, database
<1>2. ASSUME NEW w \in Workers, Start(w) PROVE Guarded'
  BY <1>2, ToMoves, OutsideGuard DEF Start
<1>3. ASSUME NEW w \in Workers, NEW p \in Partitions, Poll(w, p) PROVE Guarded'
  <2>1. Alone(w) /\ worker'[w].pc = "claim" /\ UNCHANGED database
    BY <1>3 DEF Poll, Alone, TypeOK
  <2>2. QED
    BY <2>1, OutsideGuard
<1>4. ASSUME NEW w \in Workers, Claim(w) PROVE Guarded'
  <2>1. CASE Fresh(worker[w].key)
    <3>1. /\ Alone(w) /\ worker'[w].pc = "read" /\ worker'[w].key = worker[w].key
      BY <1>4, <2>1, ToMoves DEF Claim
    <3>2. \A v \in Workers \ {w} : Inside(v) => worker[v].key # worker[w].key
      BY <1>4 DEF Claim, Inside
    <3>3. UNCHANGED database
      BY <1>4 DEF Claim
    <3>4. QED
      BY <2>1, <3>1, <3>2, <3>3 DEF Guarded, Inside, Alone, Fresh, database
  <2>2. CASE ~Fresh(worker[w].key)
    BY <1>4, <2>2, ToMoves, OutsideGuard DEF Claim
  <2>3. QED
    BY <2>1, <2>2
<1>5. ASSUME NEW w \in Workers, Read(w) PROVE Guarded'
  <2>1. Inside(w) /\ UNCHANGED database
    BY <1>5 DEF Read, Inside
  <2>2. CASE To(w, "commit")
    BY <2>1, <2>2, ToMoves, OutsideGuard
  <2>3. CASE Failed(w)
    BY <2>1, <2>3, FailedMoves, OutsideGuard
  <2>4. QED
    BY <1>5, <2>2, <2>3 DEF Read
<1>6. ASSUME NEW w \in Workers, CommitEvent(w) PROVE Guarded'
  <2>1. Alone(w) /\ worker'[w].pc \notin {"read", "commit"}
    BY <1>6, ToMoves, FailedMoves DEF CommitEvent
  <2>2. Inside(w) /\ worker[w].key \in Keys
    BY <1>6 DEF CommitEvent, Inside, TypeOK
  <2>3. worker[w].key \notin processed /\ deliveries[worker[w].key] = 0
    BY <2>2 DEF Guarded
  <2>4. \A k \in Keys : deliveries'[k] = IF k \in processed' THEN 1 ELSE 0
    BY <1>6, <2>2, <2>3 DEF CommitEvent, Guarded, TypeOK
  <2>5. ASSUME NEW v \in Workers, Inside(v)'
        PROVE  /\ v # w /\ worker'[v].key \notin processed'
               /\ \A u \in Workers \ {v} : Inside(u)' => worker'[u].key # worker'[v].key
    <3>1. v # w /\ worker'[v] = worker[v] /\ Inside(v)
      BY <2>1, <2>5 DEF Alone, Inside
    <3>2. worker[v].key # worker[w].key /\ worker[v].key \notin processed
      BY <2>2, <3>1 DEF Guarded
    <3>3. \A u \in Workers \ {v} : Inside(u)' => worker'[u] = worker[u] /\ Inside(u)
      BY <2>1 DEF Alone, Inside
    <3>4. QED
      BY <1>6, <3>1, <3>2, <3>3 DEF CommitEvent, Guarded
  <2>6. QED
    BY <2>4, <2>5 DEF Guarded
<1>7. ASSUME NEW w \in Workers, Ack(w) PROVE Guarded'
  <2>1. Alone(w) /\ worker'[w].pc = "poll" /\ UNCHANGED database
    BY <1>7 DEF Ack, Alone, TypeOK, Down
  <2>2. QED
    BY <2>1, OutsideGuard
<1>8. ASSUME NEW w \in Workers, Hiccup(w) PROVE Guarded'
  BY <1>8, FailedMoves, OutsideGuard DEF Hiccup
<1>9. ASSUME NEW w \in Workers, CrashWorker(w) PROVE Guarded'
  BY <1>9, ExitMoves, OutsideGuard DEF CrashWorker
<1>10. CASE \/ \E m \in Mails : Offer(m) \/ HangUp(m) \/ Repair(m)
            \/ \E k \in Keys : Put(k) \/ Publish(k) \/ Reply(k) \/ Expire(k)
            \/ CrashReceiver \/ Reassign \/ Rebalance
            \/ UNCHANGED vars
  BY <1>1, <1>10 DEF Offer, HangUp, Repair, Put, Publish, Reply, Expire, CrashReceiver,
     Reassign, Rebalance, Assign, vars
<1>11. QED
  BY <1>2, <1>3, <1>4, <1>5, <1>6, <1>7, <1>8, <1>9, <1>10 DEF Next, Work

\* pipeline.py: however often an event is redelivered, to however many workers,
\* and whatever commit's answer gets lost, its mail is delivered at most once.
THEOREM DeliveredOnce == Spec => []EventsDeliverOnce
<1>1. Init => Guarded
  BY DEF Init, Guarded, Inside, Down
<1>2. TypeOK /\ Guarded /\ [Next]_vars => Guarded'
  BY GuardInductive
<1>3. Guarded => EventsDeliverOnce
  BY DEF Guarded, EventsDeliverOnce
<1>4. QED
  BY <1>1, <1>2, <1>3, QueueTypeCorrect, PTL DEF Spec

-----------------------------------------------------------------------------
(* Offsets.  A worker's fetch position runs ahead of what it has done by   *)
(* the one record it handles, and a new owner starts at the offset; so     *)
(* everything before the position of a served partition is committed, or   *)
(* is in the hands of its owner.                                           *)

Handling(w, k) == worker[w].pc \in {"claim", "read", "commit"} /\ worker[w].key = k

WithinLog ==
    \A p \in Partitions : offset[p] <= Len(log[p]) /\ position[p] <= Len(log[p])

Fetched ==
    \A p \in Partitions : owner[p] \in Workers =>
        \A i \in 1..position[p] : log[p][i] \in processed \/ Handling(owner[p], log[p][i])

AckDone == \A w \in Workers : worker[w].pc = "ack" => worker[w].key \in processed

Consuming == WithinLog /\ AckedIsProcessed /\ Fetched /\ AckDone

\* A worker goes on with its record, commits it, or loses its partitions.
LEMMA OffsetsStay ==
    ASSUME TypeOK, Consuming, NEW w \in Workers, Alone(w), UNCHANGED <<log, offset, position>>,
           processed \subseteq processed',
           \A p \in Partitions : owner'[p] \in Workers => owner'[p] = owner[p],
           \/ \A p \in Partitions : owner'[p] # w
           \/ \A k : Handling(w, k) => Handling(w, k)' \/ k \in processed',
           worker'[w].pc = "ack" => worker'[w].key \in processed'
    PROVE  Consuming'
<1>1. WithinLog' /\ AckedIsProcessed'
  BY DEF Consuming, WithinLog, AckedIsProcessed
<1>2. AckDone'
  BY DEF Consuming, AckDone, Alone
<1>3. ASSUME NEW p \in Partitions, owner'[p] \in Workers, NEW i \in 1..position'[p]
      PROVE  (log[p][i] \in processed \/ Handling(owner[p], log[p][i]))'
  <2>1. owner'[p] = owner[p] /\ log'[p][i] = log[p][i] /\ i \in 1..position[p]
    BY <1>3
  <2>2. log[p][i] \in processed \/ Handling(owner[p], log[p][i])
    BY <1>3, <2>1 DEF Consuming, Fetched
  <2>3. CASE log[p][i] \in processed
    BY <2>1, <2>3
  <2>4. CASE owner[p] # w /\ Handling(owner[p], log[p][i])
    BY <1>3, <2>1, <2>4 DEF Handling, Alone
  <2>5. CASE owner[p] = w /\ Handling(w, log[p][i])
    <3>1. Handling(w, log[p][i])' \/ log[p][i] \in processed'
      BY <2>1, <2>5 DEF Handling
    <3>2. QED
      BY <2>1, <2>5, <3>1
  <2>6. QED
    BY <2>2, <2>3, <2>4, <2>5
<1>4. QED
  BY <1>1, <1>2, <1>3 DEF Consuming, Fetched

\* A process that ends leaves its partitions to nobody.
LEMMA Dropped ==
    ASSUME TypeOK, Consuming, NEW w \in Workers, Alone(w), UNCHANGED <<log, offset, position>>,
           processed \subseteq processed',
           owner' = [p \in Partitions |-> IF owner[p] = w THEN NULL ELSE owner[p]],
           worker'[w].pc = "down"
    PROVE  Consuming'
<1>1. \A p \in Partitions : owner'[p] \in Workers => owner'[p] = owner[p]
  BY QueueConstants DEF QueueConstants
<1>2. \A p \in Partitions : owner'[p] # w
  BY QueueConstants DEF QueueConstants
<1>3. QED
  BY <1>1, <1>2, OffsetsStay

LEMMA OffsetsInductive == TypeOK /\ Consuming /\ [Next]_vars => Consuming'
<1> SUFFICES ASSUME TypeOK, Consuming, [Next]_vars PROVE Consuming'
  OBVIOUS
<1>1. CASE UNCHANGED <<kafka, worker, database>>
  BY <1>1 DEF Consuming, WithinLog, AckedIsProcessed, Fetched, AckDone, Handling, kafka, database
<1>2. ASSUME NEW k \in Keys, Publish(k) PROVE Consuming'
  <2>1. CASE log' = log
    BY <1>1, <1>2, <2>1 DEF Publish, kafka
  <2>2. ASSUME NEW p \in Partitions, log' = [log EXCEPT ![p] = Append(@, k)] PROVE Consuming'
    <3>1. \A q \in Partitions :
            /\ Len(log[q]) \in Nat /\ Len(log'[q]) \in Nat /\ Len(log'[q]) >= Len(log[q])
            /\ \A i \in 1..Len(log[q]) : log'[q][i] = log[q][i]
      BY <2>2, Appended DEF TypeOK
    <3>2. UNCHANGED <<offset, owner, position, worker, processed>>
      BY <1>2 DEF Publish, database
    <3>3. \A q \in Partitions : offset[q] \in Nat /\ position[q] \in Nat
      BY DEF TypeOK
    <3>4. WithinLog'
      BY <3>1, <3>2, <3>3 DEF Consuming, WithinLog
    <3>5. \A q \in Partitions :
            /\ \A i \in 1..offset[q] : log'[q][i] = log[q][i]
            /\ \A i \in 1..position[q] : log'[q][i] = log[q][i]
      BY <3>1, <3>3 DEF Consuming, WithinLog
    <3>6. AckedIsProcessed'
      BY <3>2, <3>5 DEF Consuming, AckedIsProcessed
    <3>7. Fetched'
      BY <3>2, <3>5 DEF Consuming, Fetched, Handling
    <3>8. QED
      BY <3>2, <3>4, <3>6, <3>7 DEF Consuming, AckDone
  <2>3. QED
    BY <1>2, <2>1, <2>2 DEF Publish
<1>3. CASE Assign
  BY <1>3 DEF Assign, Resumed, Consuming, WithinLog, AckedIsProcessed, Fetched, AckDone, database
<1>4. ASSUME NEW w \in Workers, Start(w) PROVE Consuming'
  BY <1>4, ToMoves, OffsetsStay DEF Start, Handling, database
<1>5. ASSUME NEW w \in Workers, NEW p \in Partitions, Poll(w, p) PROVE Consuming'
  <2>1. /\ Alone(w) /\ worker[w].pc = "poll" /\ worker'[w].pc = "claim"
        /\ worker'[w].key = log[p][position[p] + 1]
    BY <1>5 DEF Poll, Alone, TypeOK
  <2>2. /\ UNCHANGED <<log, offset, owner, processed>>
        /\ owner[p] = w /\ position[p] < Len(log[p])
        /\ position' = [position EXCEPT ![p] = @ + 1]
    BY <1>5 DEF Poll, database
  <2>3. \A q \in Partitions : position[q] \in Nat /\ Len(log[q]) \in Nat
    BY DEF TypeOK
  <2>4. \A q \in Partitions : position'[q] = IF q = p THEN position[q] + 1 ELSE position[q]
    BY <2>2 DEF TypeOK
  <2>5. WithinLog' /\ AckedIsProcessed'
    BY <2>2, <2>3, <2>4 DEF Consuming, WithinLog, AckedIsProcessed
  <2>6. AckDone'
    BY <2>1, <2>2 DEF Consuming, AckDone, Alone
  <2>7. ASSUME NEW q \in Partitions, owner[q] \in Workers, NEW i \in 1..position'[q]
        PROVE  log[q][i] \in processed \/ Handling(owner[q], log[q][i])'
    <3>1. CASE i \in 1..position[q]
      <4>1. log[q][i] \in processed \/ Handling(owner[q], log[q][i])
        BY <2>7, <3>1 DEF Consuming, Fetched
      <4>2. Handling(owner[q], log[q][i]) => Handling(owner[q], log[q][i])'
        BY <2>1, <2>2, <2>7 DEF Handling, Alone
      <4>3. QED
        BY <4>1, <4>2
    <3>2. CASE i \notin 1..position[q]
      <4>1. q = p /\ i = position[p] + 1
        BY <2>3, <2>4, <2>7, <3>2
      <4>2. QED
        BY <2>1, <2>2, <4>1 DEF Handling
    <3>3. QED
      BY <3>1, <3>2
  <2>8. Fetched'
    BY <2>2, <2>7 DEF Fetched
  <2>9. QED
    BY <2>5, <2>6, <2>8 DEF Consuming
<1>6. ASSUME NEW w \in Workers, Claim(w) PROVE Consuming'
  <2>1. CASE Fresh(worker[w].key)
    BY <1>6, <2>1, ToMoves, OffsetsStay DEF Claim, Handling, database
  <2>2. CASE ~Fresh(worker[w].key)
    BY <1>6, <2>2, ToMoves, OffsetsStay DEF Claim, Fresh, Handling, database
  <2>3. QED
    BY <2>1, <2>2
<1>7. ASSUME NEW w \in Workers, Failed(w), UNCHANGED <<log, offset, position>>,
             processed \subseteq processed'
      PROVE  Consuming'
  <2>1. Alone(w)
    BY <1>7, FailedMoves
  <2>2. CASE /\ worker'[w].pc = "down"
             /\ owner' = [p \in Partitions |-> IF owner[p] = w THEN NULL ELSE owner[p]]
    BY <1>7, <2>1, <2>2, Dropped
  <2>3. CASE worker'[w].pc = "claim" /\ worker'[w].key = worker[w].key /\ owner' = owner
    <3>1. \A k : Handling(w, k) => Handling(w, k)'
      BY <2>3 DEF Handling
    <3>2. QED
      BY <1>7, <2>1, <2>3, <3>1, OffsetsStay
  <2>4. QED
    BY <1>7, <2>2, <2>3, FailedMoves
<1>8. ASSUME NEW w \in Workers, Read(w) PROVE Consuming'
  <2>1. CASE To(w, "commit")
    BY <1>8, <2>1, ToMoves, OffsetsStay DEF Read, Handling, database
  <2>2. CASE Failed(w)
    BY <1>7, <1>8, <2>2 DEF Read, database
  <2>3. QED
    BY <1>8, <2>1, <2>2 DEF Read
<1>9. ASSUME NEW w \in Workers, CommitEvent(w) PROVE Consuming'
  <2>1. CASE To(w, "ack")
    BY <1>9, <2>1, ToMoves, OffsetsStay DEF CommitEvent, Handling
  <2>2. CASE Failed(w)
    BY <1>7, <1>9, <2>2 DEF CommitEvent
  <2>3. QED
    BY <1>9, <2>1, <2>2 DEF CommitEvent
<1>10. ASSUME NEW w \in Workers, Ack(w) PROVE Consuming'
  <2>1. Alone(w) /\ worker[w].pc = "ack" /\ worker'[w].pc = "poll"
    BY <1>10 DEF Ack, Alone, TypeOK, Down
  <2>2. /\ UNCHANGED <<log, owner, position, processed>>
        /\ \A p \in Partitions :
             offset'[p] = IF owner[p] = w THEN position[p] ELSE offset[p]
    BY <1>10 DEF Ack, Consumed, database
  <2>3. WithinLog'
    BY <2>2 DEF Consuming, WithinLog
  <2>4. ASSUME NEW p \in Partitions, NEW i \in 1..offset'[p] PROVE log[p][i] \in processed
    <3>1. CASE owner[p] = w
      <4>1. i \in 1..position[p]
        BY <2>2, <2>4, <3>1
      <4>2. QED
        BY <2>1, <3>1, <4>1 DEF Consuming, Fetched, Handling
    <3>2. CASE owner[p] # w
      BY <2>2, <2>4, <3>2 DEF Consuming, AckedIsProcessed
    <3>3. QED
      BY <3>1, <3>2
  <2>5. AckedIsProcessed'
    BY <2>2, <2>4 DEF AckedIsProcessed
  <2>6. Fetched'
    BY <2>1, <2>2 DEF Consuming, Fetched, Handling, Alone
  <2>7. AckDone'
    BY <2>1, <2>2 DEF Consuming, AckDone, Alone
  <2>8. QED
    BY <2>3, <2>5, <2>6, <2>7 DEF Consuming
<1>11. ASSUME NEW w \in Workers, Hiccup(w) PROVE Consuming'
  BY <1>7, <1>11 DEF Hiccup, database
<1>12. ASSUME NEW w \in Workers, CrashWorker(w) PROVE Consuming'
  BY <1>12, ExitMoves, Dropped DEF CrashWorker, database
<1>13. CASE \/ \E m \in Mails : Offer(m) \/ HangUp(m) \/ Repair(m)
            \/ \E k \in Keys : Put(k) \/ Reply(k) \/ Expire(k)
            \/ CrashReceiver
            \/ UNCHANGED vars
  BY <1>1, <1>13 DEF Offer, HangUp, Repair, Put, Reply, Expire, CrashReceiver, vars
<1>14. QED
  BY <1>2, <1>3, <1>4, <1>5, <1>6, <1>8, <1>9, <1>10, <1>11, <1>12, <1>13
  DEF Next, Work, Reassign, Rebalance

LEMMA OffsetsInitially == Init => Consuming
BY DEF Init, Consuming, WithinLog, AckedIsProcessed, Fetched, AckDone, Down

LEMMA ConsumingAlways == Spec => []Consuming
<1>1. Init => Consuming
  BY OffsetsInitially
<1>2. TypeOK /\ Consuming /\ [Next]_vars => Consuming'
  BY OffsetsInductive
<1>3. QED
  BY <1>1, <1>2, QueueTypeCorrect, PTL DEF Spec

\* worker/main.py: whoever crashes or loses its partitions, and whenever, the
\* group's offset never passes a record whose transaction is not committed.
THEOREM OffsetsSafe == Spec => []AckedIsProcessed
<1>1. Consuming => AckedIsProcessed
  BY DEF Consuming
<1>2. QED
  BY <1>1, ConsumingAlways, PTL

-----------------------------------------------------------------------------
(* Acceptance.  250 is said by a Data whose event is in the log, and a     *)
(* sender believes only the answer to its latest sending.                  *)

Kept ==
    /\ \A k \in Keys : smtp[k] = "reply" => Queued(k)
    /\ \A m \in Mails : sender[m] = "accepted" =>
        \E k \in Keys : k[1] = m /\ k[2] \in 1..sent[m] /\ Queued(k)

\* Who is newly told "accepted" has an event; everything else only adds events.
LEMMA KeptOn ==
    ASSUME Kept, UNCHANGED sent, \A k \in Keys : Queued(k) => Queued(k)',
           \A k \in Keys : smtp'[k] = "reply" => smtp[k] = "reply" \/ Queued(k)',
           \A m \in Mails : sender'[m] = "accepted" => sender[m] = "accepted"
    PROVE  Kept'
<1>1. \A k \in Keys : smtp'[k] = "reply" => Queued(k)'
  BY DEF Kept
<1>2. ASSUME NEW m \in Mails, sender'[m] = "accepted"
      PROVE  \E k \in Keys : k[1] = m /\ k[2] \in 1..sent'[m] /\ Queued(k)'
  BY <1>2 DEF Kept
<1>3. QED
  BY <1>1, <1>2 DEF Kept

\* An answer that is no acceptance.
LEMMA Refused ==
    ASSUME TypeOK, NEW k \in Keys, NEW what \in {"queued", "bounced"}, Answer(k, what)
    PROVE  /\ \A j \in Keys : smtp'[j] = "reply" => smtp[j] = "reply"
           /\ \A m \in Mails : sender'[m] = "accepted" => sender[m] = "accepted"
BY DEF TypeOK, Answer, Told

LEMMA KeptInductive == TypeOK /\ Kept /\ [Next]_vars => Kept'
<1> SUFFICES ASSUME TypeOK, Kept, [Next]_vars PROVE Kept'
  OBVIOUS
<1>1. CASE UNCHANGED <<sender, sent, smtp, log>>
  BY <1>1 DEF Kept, Queued
<1>2. ASSUME NEW m \in Mails, Offer(m) PROVE Kept'
  <2>1. /\ UNCHANGED log /\ sender[m] = "queued"
        /\ \A k \in Keys : smtp'[k] = "reply" => smtp[k] = "reply"
        /\ \A n \in Mails : sender'[n] = "accepted" =>
             n # m /\ sender[n] = "accepted" /\ sent'[n] = sent[n]
    BY <1>2 DEF Offer, TypeOK, DataSteps, kafka
  <2>2. \A k \in Keys : Queued(k)' <=> Queued(k)
    BY <2>1 DEF Queued
  <2>3. QED
    BY <2>1, <2>2 DEF Kept
<1>3. ASSUME NEW k \in Keys, Put(k) PROVE Kept'
  <2>1. UNCHANGED <<sent, log>> /\ \A j \in Keys : Queued(j)' <=> Queued(j)
    BY <1>3 DEF Put, kafka, Queued
  <2>2. CASE smtp' = [smtp EXCEPT ![k] = After("put")] /\ UNCHANGED sender
    BY <2>1, <2>2, KeptOn DEF After, DataSteps, TypeOK
  <2>3. CASE Answer(k, "bounced") \/ Answer(k, TempFailure)
    BY <2>1, <2>3, KeptOn, Refused DEF TempFailure
  <2>4. QED
    BY <1>3, <2>2, <2>3 DEF Put
<1>4. ASSUME NEW k \in Keys, Publish(k) PROVE Kept'
  <2>1. sent' = sent
    BY <1>4 DEF Publish
  <2>2. \A j \in Keys : Queued(j) => Queued(j)'
    <3>1. CASE log' = log
      BY <3>1 DEF Queued
    <3>2. ASSUME NEW p \in Partitions, log' = [log EXCEPT ![p] = Append(@, k)]
          PROVE  \A j \in Keys : Queued(j) => Queued(j)'
      BY <3>2, Appended DEF TypeOK
    <3>3. QED
      BY <1>4, <3>1, <3>2 DEF Publish
  <2>3. ASSUME NEW p \in Partitions, log' = [log EXCEPT ![p] = Append(@, k)],
               smtp' = [smtp EXCEPT ![k] = After("publish")], UNCHANGED sender
        PROVE  Kept'
    <3>1. Queued(k)'
      BY <2>3, Appended DEF TypeOK
    <3>2. \A j \in Keys : smtp'[j] = "reply" => smtp[j] = "reply" \/ Queued(j)'
      BY <2>3, <3>1 DEF TypeOK
    <3>3. QED
      BY <2>1, <2>2, <2>3, <3>2, KeptOn
  <2>4. CASE Answer(k, TempFailure)
    BY <2>1, <2>2, <2>4, KeptOn, Refused DEF TempFailure
  <2>5. QED
    BY <1>4, <2>3, <2>4 DEF Publish
<1>5. ASSUME NEW k \in Keys, Reply(k) PROVE Kept'
  <2>1. /\ UNCHANGED <<sent, log>> /\ smtp[k] = "reply"
        /\ \A j \in Keys : smtp'[j] = "reply" => smtp[j] = "reply"
        /\ sender' = Told(k, "accepted")
    BY <1>5 DEF Reply, Answer, kafka, TypeOK
  <2>2. \A j \in Keys : Queued(j)' <=> Queued(j)
    BY <2>1 DEF Queued
  <2>3. Queued(k)' /\ k[1] \in Mails /\ k[2] \in 1..MaxSends
    BY <2>1, <2>2 DEF Kept, Keys
  <2>4. ASSUME NEW m \in Mails, sender'[m] = "accepted"
        PROVE  \E j \in Keys : j[1] = m /\ j[2] \in 1..sent'[m] /\ Queued(j)'
    <3>1. CASE sender[m] = "accepted"
      BY <2>1, <2>2, <3>1 DEF Kept
    <3>2. CASE sender[m] # "accepted"
      <4>1. m = k[1] /\ sent[m] = k[2]
        BY <2>1, <2>4, <3>2 DEF Told, TypeOK
      <4>2. k[2] \in 1..sent'[m]
        BY <2>1, <2>3, <4>1
      <4>3. QED
        BY <2>3, <4>1, <4>2
    <3>3. QED
      BY <3>1, <3>2
  <2>5. QED
    BY <2>1, <2>2, <2>4 DEF Kept
<1>6. ASSUME NEW m \in Mails, HangUp(m) PROVE Kept'
  <2>1. /\ UNCHANGED <<sent, smtp, log>>
        /\ \A n \in Mails : sender'[n] = "accepted" => sender[n] = "accepted"
    BY <1>6 DEF HangUp, kafka, TypeOK
  <2>2. QED
    BY <2>1, KeptOn DEF Queued
<1>7. CASE CrashReceiver
  <2>1. /\ UNCHANGED <<sent, log>>
        /\ \A k \in Keys : smtp'[k] # "reply"
        /\ \A n \in Mails : sender'[n] = "accepted" => sender[n] = "accepted"
    BY <1>7 DEF CrashReceiver, kafka
  <2>2. QED
    BY <2>1, KeptOn DEF Queued
<1>8. CASE \/ \E m \in Mails : Repair(m)
           \/ \E k \in Keys : Expire(k)
           \/ Reassign \/ Rebalance
           \/ \E w \in Workers : Work(w) \/ Hiccup(w) \/ CrashWorker(w)
           \/ UNCHANGED vars
  BY <1>1, <1>8 DEF Repair, Expire, Reassign, Rebalance, Assign, Work, Start, Claim, Read,
     CommitEvent, Ack, Poll, Hiccup, CrashWorker, receiver, kafka, vars
<1>9. QED
  BY <1>2, <1>3, <1>4, <1>5, <1>6, <1>7, <1>8 DEF Next

\* session.go, worker/main.py: mail whose sender has its 250 has been delivered,
\* or an event of it still lies ahead of the group's offset.
THEOREM AcceptedKept == Spec => []AcceptedIsKept
<1>1. Init => Kept
  BY DEF Init, Kept
<1>2. TypeOK /\ Kept /\ [Next]_vars => Kept'
  BY KeptInductive
<1>3. TypeOK /\ Kept /\ Consuming => AcceptedIsKept
  <2> SUFFICES ASSUME TypeOK, Kept, Consuming, NEW m \in Mails, sender[m] = "accepted"
               PROVE  \E k \in {m} \X (1..sent[m]) :
                        \/ k \in processed
                        \/ \E p \in Partitions : \E i \in DOMAIN log[p] :
                             i > offset[p] /\ log[p][i] = k
    BY DEF AcceptedIsKept
  <2>1. PICK k \in Keys : k[1] = m /\ k[2] \in 1..sent[m] /\ Queued(k)
    BY DEF Kept
  <2>2. k \in {m} \X (1..sent[m])
    BY <2>1 DEF Keys
  <2>3. PICK p \in Partitions : \E i \in DOMAIN log[p] : log[p][i] = k
    BY <2>1 DEF Queued
  <2>4. PICK i \in DOMAIN log[p] : log[p][i] = k
    BY <2>3
  <2>5. i \in Nat /\ i >= 1 /\ offset[p] \in Nat
    BY <2>4 DEF TypeOK
  <2>6. i <= offset[p] => k \in processed
    BY <2>4, <2>5 DEF Consuming, AckedIsProcessed
  <2>7. QED
    BY <2>2, <2>4, <2>5, <2>6
<1>4. QED
  BY <1>1, <1>2, <1>3, QueueTypeCorrect, ConsumingAlways, PTL DEF Spec

-----------------------------------------------------------------------------
(* Events and their mail.  Where no mail is poison, no partition is ever   *)
(* blocked: the first record to block one would have lost its raw mail     *)
(* before it was processed, and raw mail expires early only behind such a  *)
(* record.                                                                 *)

Needed(k) == smtp[k] = "publish" \/ (Queued(k) /\ k \notin processed)

Stored == sick = {} /\ \A k \in Keys : Needed(k) => k \in raw

LEMMA StoredInductive == TypeOK /\ Stored /\ [Next]_vars => Stored'
<1> SUFFICES ASSUME TypeOK, Stored, [Next]_vars PROVE Stored'
  OBVIOUS
<1> USE DEF Stored
<1>1. ASSUME raw \subseteq raw', sick' = sick, processed \subseteq processed',
             \A k \in Keys : Queued(k)' => Queued(k) \/ k \in raw',
             \A k \in Keys : smtp'[k] = "publish" => smtp[k] = "publish" \/ k \in raw'
      PROVE  Stored'
  BY <1>1 DEF Needed
<1>2. (UNCHANGED log) => \A k \in Keys : Queued(k)' <=> Queued(k)
  BY DEF Queued
<1>3. ASSUME NEW m \in Mails, Offer(m) PROVE Stored'
  <2>1. \A k \in Keys : smtp'[k] = "publish" => smtp[k] = "publish"
    BY <1>3 DEF Offer, DataSteps, TypeOK
  <2>2. QED
    BY <1>1, <1>2, <1>3, <2>1 DEF Offer, kafka, database
<1>4. ASSUME NEW m \in Mails, HangUp(m) \/ Repair(m) PROVE Stored'
  <2>1. sick' = {}
    BY <1>4 DEF HangUp, Repair
  <2>2. QED
    BY <1>1, <1>2, <1>4, <2>1 DEF HangUp, Repair, receiver, kafka, database
<1>5. ASSUME NEW k \in Keys, Put(k) PROVE Stored'
  <2>1. raw \subseteq raw' /\ \A j \in Keys : smtp'[j] = "publish" => smtp[j] = "publish" \/ j \in raw'
    BY <1>5 DEF Put, Answer, After, DataSteps, TypeOK
  <2>2. QED
    BY <1>1, <1>2, <1>5, <2>1 DEF Put, kafka, database
<1>6. ASSUME NEW k \in Keys, Publish(k) PROVE Stored'
  <2>1. k \in raw
    BY <1>6 DEF Publish, Needed
  <2>2. \A j \in Keys : smtp'[j] = "publish" => smtp[j] = "publish"
    BY <1>6 DEF Publish, Answer, After, DataSteps, TypeOK
  <2>3. \A j \in Keys : Queued(j)' => Queued(j) \/ j = k
    <3>1. CASE log' = log
      BY <1>2, <3>1
    <3>2. ASSUME NEW p \in Partitions, log' = [log EXCEPT ![p] = Append(@, k)]
          PROVE  \A j \in Keys : Queued(j)' => Queued(j) \/ j = k
      BY <3>2, Appended DEF TypeOK
    <3>3. QED
      BY <1>6, <3>1, <3>2 DEF Publish
  <2>4. QED
    BY <1>1, <1>6, <2>1, <2>2, <2>3 DEF Publish, database
<1>7. ASSUME NEW k \in Keys, Reply(k) PROVE Stored'
  <2>1. \A j \in Keys : smtp'[j] = "publish" => smtp[j] = "publish"
    BY <1>7 DEF Reply, Answer, TypeOK
  <2>2. QED
    BY <1>1, <1>2, <1>7, <2>1 DEF Reply, kafka, database
<1>8. ASSUME NEW k \in Keys, Expire(k) PROVE Stored'
  <2>1. ~Blocked(k)
    <3> SUFFICES ASSUME Blocked(k) PROVE FALSE
      OBVIOUS
    <3>1. PICK p \in Partitions : \E i, j \in DOMAIN log[p] :
             i <= j /\ log[p][j] = k /\ Stuck(log[p][i])
      BY DEF Blocked
    <3>2. PICK i \in DOMAIN log[p] : Stuck(log[p][i])
      BY <3>1
    <3>3. log[p][i] \in Keys /\ Queued(log[p][i])
      BY <3>2 DEF TypeOK, Queued
    <3>4. QED
      BY <3>2, <3>3 DEF Stuck, Needed
  <2>2. ~Needed(k)
    BY <1>8, <2>1 DEF Expire, Pending, Open, Needed
  <2>3. UNCHANGED <<smtp, log, processed, sick>> /\ raw' = raw \ {k}
    BY <1>8 DEF Expire, receiver, kafka, database
  <2>4. QED
    BY <1>2, <2>2, <2>3 DEF Needed
<1>9. CASE CrashReceiver
  <2>1. \A k \in Keys : smtp'[k] # "publish"
    BY <1>9 DEF CrashReceiver
  <2>2. QED
    BY <1>1, <1>2, <1>9, <2>1 DEF CrashReceiver, kafka, database
<1>10. CASE \/ Reassign \/ Rebalance
            \/ \E w \in Workers : Work(w) \/ Hiccup(w) \/ CrashWorker(w)
            \/ UNCHANGED vars
  <2>1. UNCHANGED <<raw, sick, log, smtp>> /\ processed \subseteq processed'
    BY <1>10 DEF Reassign, Rebalance, Assign, Work, Start, Claim, Read, CommitEvent, Ack, Poll,
       Hiccup, CrashWorker, receiver, kafka, database, vars
  <2>2. QED
    BY <1>1, <1>2, <2>1
<1>11. QED
  BY <1>3, <1>4, <1>5, <1>6, <1>7, <1>8, <1>9, <1>10 DEF Next

\* session.go: store first, publish second.  An event that is still to be
\* processed has its raw mail, whichever of the two calls fails or is in doubt,
\* as long as no poison mail blocks a partition past the retention period.
THEOREM EventsStored ==
    ASSUME Poison = {}
    PROVE  Spec => []EventsHaveTheirMail
<1>1. Init => Stored
  BY Poison = {} DEF Init, Stored, Needed, Queued
<1>2. TypeOK /\ Stored /\ [Next]_vars => Stored'
  BY StoredInductive
<1>3. Stored => EventsHaveTheirMail
  BY DEF Stored, Needed, EventsHaveTheirMail
<1>4. QED
  BY <1>1, <1>2, <1>3, QueueTypeCorrect, PTL DEF Spec
=============================================================================

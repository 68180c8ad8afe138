-------------------------- MODULE Delivery_proofs --------------------------
(***************************************************************************)
(* Theorems about Delivery: for any number of resellers, domains, mails    *)
(* and workers, for all aliases and catch-alls the schema allows.          *)
(***************************************************************************)
EXTENDS Delivery, TLAPS

\* Rows.
MessageRow == [of : Resellers \X Mails, thread : Resellers \X Mails]
CopyRow    == [in : Mailboxes, of : Resellers \X Mails]

JobType ==
    [pc : {"idle", "store", "route", "index", "commit"}, mail : Mails \cup {Nobody},
     todo : SUBSET Resellers, cur : Resellers \cup {Nobody},
     message : SUBSET MessageRow, inbox : SUBSET CopyRow, found : SUBSET CopyRow]

\* The groups that have been routed have exactly the copies they should.
Routed(j) ==
    /\ \A c \in j.inbox : c.of[2] = j.mail /\ c.of[1] \in Groups(j.mail) \ j.todo
    /\ \A r \in Groups(j.mail) \ j.todo : \A x \in Mailboxes :
        [in |-> x, of |-> <<r, j.mail>>] \in j.inbox <=> \E a \in Group(r, j.mail) : Serves(x, a)

\* What holds of a worker's transaction at each of its steps.
JobOK(j) ==
    /\ j \in JobType
    /\ j.pc = "idle" => j = NoJob
    /\ j.pc # "idle" => j.mail \in Mails /\ j.todo \subseteq Groups(j.mail)
    /\ j.pc = "store" => j.inbox = {} /\ j.found = {}
    /\ j.pc = "index" => j.cur \in Groups(j.mail) \ j.todo
    /\ j.pc = "commit" => j.todo = {}
    /\ j.pc \in {"route", "index", "commit"} => Routed(j)
    /\ \A p \in j.message : p.thread[1] = p.of[1]
    /\ \A c \in j.inbox : OwnerOf[c.in[1]] = c.of[1]
    /\ j.found = {c \in j.inbox : j.mail \notin Hopeless /\ ~(j.pc = "index" /\ c.of = <<j.cur, j.mail>>)}

TablesOK ==
    /\ alias \in Aliases /\ catchAll \in CatchAlls /\ envelope \in Envelopes
    /\ done \subseteq Mails /\ message \subseteq MessageRow
    /\ inbox \subseteq CopyRow /\ found \subseteq CopyRow
    /\ job \in [Workers -> JobType]

\* The inductive invariant.
MailInv ==
    /\ TablesOK
    /\ \A w \in Workers : JobOK(job[w])
    /\ \A w \in Workers : job[w].pc # "idle" => job[w].mail \notin done
    /\ \A v, w \in Workers : v # w /\ job[v].pc # "idle" => job[v].mail # job[w].mail
    /\ \A c \in inbox : c.of[2] \in done
    /\ CopiesStayInTenant /\ ThreadsStayInTenant /\ RecipientsAreServed /\ DeliveredIsFound

-----------------------------------------------------------------------------
(* The operators of routing and threading                                  *)

\* The groups of a mail are resellers of ours.
LEMMA GroupsAreResellers ==
    ASSUME DeliveryConstants, envelope \in Envelopes, NEW m \in Mails
    PROVE  Groups(m) \subseteq Resellers
BY DEF DeliveryConstants, Groups, To, Resellers

\* A thread that is joined belongs to the reseller of the mail that joins it.
LEMMA ThreadsAreOurs ==
    ASSUME message \subseteq MessageRow, ThreadsStayInTenant,
           NEW m \in Mails, NEW r \in Resellers, NEW t \in ThreadsFor(r, m)
    PROVE  t \in Resellers \X Mails /\ t[1] = r
BY DEF ThreadsFor, Oldest, Parents, ThreadsStayInTenant, MessageRow

\* What resolve returns lies in the tenant, whatever the pointers say, and is exactly what
\* the chain alias, mailbox, catch-all leads to inside it.
LEMMA ResolveServes ==
    ASSUME DeliveryConstants, TablesOK, NEW m \in Mails, NEW r \in Resellers
    PROVE  /\ Resolve(r, Group(r, m)) \subseteq Mailboxes
           /\ \A x \in Mailboxes :
                x \in Resolve(r, Group(r, m)) <=> \E a \in Group(r, m) : Serves(x, a)
           /\ \A x \in Resolve(r, Group(r, m)) : OwnerOf[x[1]] = r
<1>1. \A a \in Group(r, m) : a[1] \in Names /\ OwnerOf[a[1]] = r
  BY DEF Group, To, TablesOK, DeliveryConstants
<1>2. \A a \in Group(r, m) : Target(a) \in Mailboxes \cup {Nobody}
  BY <1>1 DEF Target, TablesOK, DeliveryConstants
<1>3. ASSUME NEW x \in Mailboxes, NEW a \in Group(r, m)
      PROVE  Serves(x, a) <=> (Target(a) = x /\ OwnerOf[x[1]] = r)
  BY <1>1, <1>3 DEF Serves, Target
<1>4. Nobody \notin Mailboxes
  BY DEF DeliveryConstants
<1>5. \A x : x \in Resolve(r, Group(r, m)) <=>
              x # Nobody /\ OwnerOf[x[1]] = r /\ \E a \in Group(r, m) : Target(a) = x
  BY DEF Resolve, OnlyOurs
<1>6. QED
  BY <1>2, <1>3, <1>4, <1>5

-----------------------------------------------------------------------------
(* Steps                                                                   *)

\* A transaction moves on, or ends without a trace: nobody else notices.
LEMMA JobMoves ==
    ASSUME DeliveryConstants, MailInv, UNCHANGED <<pointers, mailTables>>,
           NEW w \in Workers, NEW new, job' = [job EXCEPT ![w] = new], JobOK(new),
           \/ new.pc = "idle"
           \/ /\ new.mail = job[w].mail /\ job[w].pc # "idle"
           \/ /\ new.mail \notin done /\ \A v \in Workers : job[v].mail # new.mail
    PROVE  MailInv'
<1>1. job \in [Workers -> JobType] /\ new \in JobType
  BY DEF MailInv, TablesOK, JobOK
<1>2. \A v \in Workers : job'[v] = IF v = w THEN new ELSE job[v]
  BY <1>1
<1>3. TablesOK'
  BY <1>1 DEF MailInv, TablesOK, pointers, mailTables
<1>4. \A j : JobOK(j) => JobOK(j)'
  BY DEF pointers, JobOK, Routed, Groups, Group, To, Serves
<1>5. \A v \in Workers : JobOK(job[v])'
  BY <1>2, <1>4 DEF MailInv
<1>6. \A v \in Workers : job'[v].pc # "idle" => job'[v].mail \notin done'
  BY <1>2 DEF MailInv, mailTables
<1>7. \A u, v \in Workers : u # v /\ job'[u].pc # "idle" => job'[u].mail # job'[v].mail
  <2>1. \A v \in Workers : job[v].pc # "idle" => job[v].mail \in Mails
    BY DEF MailInv, JobOK
  <2>2. new.pc = "idle" => new.mail = Nobody /\ Nobody \notin Mails
    BY DEF JobOK, NoJob, DeliveryConstants
  <2>3. \A u, v \in Workers : u # v /\ job[u].pc # "idle" => job[u].mail # job[v].mail
    BY DEF MailInv
  <2>4. QED
    BY <1>2, <2>1, <2>2, <2>3
<1>8. (CopiesStayInTenant /\ ThreadsStayInTenant /\ RecipientsAreServed /\ DeliveredIsFound)'
  BY DEF MailInv, mailTables, pointers, CopiesStayInTenant, ThreadsStayInTenant,
         RecipientsAreServed, DeliveredIsFound, To, Serves
<1>9. QED
  BY <1>3, <1>5, <1>6, <1>7, <1>8 DEF MailInv, mailTables

\* A worker without a transaction satisfies what holds of one.
LEMMA NoJobOK == ASSUME DeliveryConstants PROVE JobOK(NoJob)
BY DEF DeliveryConstants, JobOK, NoJob, JobType

\* An event is claimed by one worker, and only while it is not done.
LEMMA ClaimMailInv ==
    ASSUME DeliveryConstants, MailInv, NEW w \in Workers, NEW m \in Mails, ClaimMail(w, m)
    PROVE  MailInv'
<1> DEFINE new == [NoJob EXCEPT !.mail = m, !.todo = Groups(m),
                        !.pc = IF Groups(m) = {} THEN "commit" ELSE "store"]
<1>1. job' = [job EXCEPT ![w] = new] /\ UNCHANGED <<pointers, mailTables>>
  BY DEF ClaimMail
<1>2. m \notin done /\ \A v \in Workers : job[v].mail # m
  BY DEF ClaimMail
<1>3. Groups(m) \subseteq Resellers
  BY GroupsAreResellers DEF MailInv, TablesOK
<1>4. /\ new.pc = (IF Groups(m) = {} THEN "commit" ELSE "store") /\ new.mail = m
      /\ new.todo = Groups(m) /\ new.cur = Nobody
      /\ new.message = {} /\ new.inbox = {} /\ new.found = {}
  BY DEF NoJob
<1>5. new \in JobType
  BY <1>3 DEF NoJob, JobType
<1>6. JobOK(new)
  <2> HIDE DEF new
  <2>1. QED
    BY <1>4, <1>5 DEF JobOK, Routed
<1>7. new.mail = m
  BY <1>4
<1> HIDE DEF new
<1>8. QED
  BY <1>1, <1>2, <1>6, <1>7, JobMoves

\* A message row carries a conversation of its own reseller.
LEMMA StoreMessageInv ==
    ASSUME DeliveryConstants, MailInv, NEW w \in Workers, StoreMessage(w)
    PROVE  MailInv'
<1> DEFINE j == job[w]
<1>0. PICK r \in j.todo : \E t \in ThreadsFor(r, j.mail) :
        LET left == j.todo \ {r} IN
        job' = [job EXCEPT ![w].message = @ \cup {[of |-> <<r, j.mail>>, thread |-> t]},
                           ![w].todo = IF left = {} THEN Groups(j.mail) ELSE left,
                           ![w].pc = IF left = {} THEN "route" ELSE "store"]
  BY DEF StoreMessage
<1>1. PICK t \in ThreadsFor(r, j.mail) :
        LET left == j.todo \ {r} IN
        job' = [job EXCEPT ![w].message = @ \cup {[of |-> <<r, j.mail>>, thread |-> t]},
                           ![w].todo = IF left = {} THEN Groups(j.mail) ELSE left,
                           ![w].pc = IF left = {} THEN "route" ELSE "store"]
  BY <1>0
<1> DEFINE row == [of |-> <<r, j.mail>>, thread |-> t]
           left == j.todo \ {r}
           new == [j EXCEPT !.message = @ \cup {row},
                            !.todo = IF left = {} THEN Groups(j.mail) ELSE left,
                            !.pc = IF left = {} THEN "route" ELSE "store"]
<1>2. JobOK(j) /\ j \in JobType /\ j.pc = "store" /\ job \in [Workers -> JobType]
  BY DEF MailInv, TablesOK, StoreMessage
<1>3. j.mail \in Mails /\ j.todo \subseteq Groups(j.mail) /\ j.inbox = {} /\ j.found = {}
  BY <1>2 DEF JobOK
<1>4. Groups(j.mail) \subseteq Resellers
  BY <1>3, GroupsAreResellers DEF MailInv, TablesOK
<1>5. t \in Resellers \X Mails /\ t[1] = r
  BY <1>3, <1>4, ThreadsAreOurs DEF MailInv, TablesOK
<1>6. row \in MessageRow /\ row.thread[1] = row.of[1]
  BY <1>3, <1>4, <1>5 DEF MessageRow
<1>7. job' = [job EXCEPT ![w] = new]
  BY <1>1, <1>2
<1>8. /\ new \in JobType
      /\ new.message = j.message \cup {row} /\ new.inbox = {} /\ new.found = {}
      /\ new.mail = j.mail /\ new.todo = IF left = {} THEN Groups(j.mail) ELSE left
      /\ new.pc = IF left = {} THEN "route" ELSE "store"
  BY <1>2, <1>3, <1>4, <1>6 DEF JobType
<1>9. JobOK(new)
  <2> HIDE DEF new, row
  <2>1. Routed(new) \/ new.pc = "store"
    BY <1>8 DEF Routed
  <2>2. \A p \in new.message : p.thread[1] = p.of[1]
    BY <1>2, <1>6, <1>8 DEF JobOK
  <2>3. new.todo \subseteq Groups(new.mail)
    BY <1>3, <1>8
  <2>4. QED
    BY <1>3, <1>8, <2>1, <2>2, <2>3 DEF JobOK
<1>10. UNCHANGED <<pointers, mailTables>> /\ new.mail = j.mail /\ j.pc # "idle"
  BY <1>2, <1>8 DEF StoreMessage
<1> HIDE DEF new
<1>11. QED
  BY <1>7, <1>9, <1>10, JobMoves

\* A group that is routed has exactly the copies its recipients lead to.
LEMMA RouteAndDeliverInv ==
    ASSUME DeliveryConstants, MailInv, NEW w \in Workers, RouteAndDeliver(w)
    PROVE  MailInv'
<1> DEFINE j == job[w]
<1>1. PICK r \in j.todo :
        job' = [job EXCEPT ![w].cur = r, ![w].todo = @ \ {r}, ![w].pc = "index",
                    ![w].inbox = @ \cup {[in |-> x, of |-> <<r, j.mail>>] :
                                            x \in Resolve(r, Group(r, j.mail))}]
  BY DEF RouteAndDeliver
<1> DEFINE rows == {[in |-> x, of |-> <<r, j.mail>>] : x \in Resolve(r, Group(r, j.mail))}
           new == [j EXCEPT !.cur = r, !.todo = @ \ {r}, !.pc = "index", !.inbox = @ \cup rows]
<1>2. JobOK(j) /\ j \in JobType /\ j.pc = "route" /\ job \in [Workers -> JobType]
  BY DEF MailInv, TablesOK, RouteAndDeliver
<1>3. j.mail \in Mails /\ j.todo \subseteq Groups(j.mail) /\ Routed(j)
  BY <1>2 DEF JobOK
<1>4. Groups(j.mail) \subseteq Resellers
  BY <1>3, GroupsAreResellers DEF MailInv, TablesOK
<1>5. /\ Resolve(r, Group(r, j.mail)) \subseteq Mailboxes
      /\ \A x \in Mailboxes :
            x \in Resolve(r, Group(r, j.mail)) <=> \E a \in Group(r, j.mail) : Serves(x, a)
      /\ \A x \in Resolve(r, Group(r, j.mail)) : OwnerOf[x[1]] = r
  BY <1>3, <1>4, ResolveServes DEF MailInv
<1>6. rows \subseteq CopyRow
  BY <1>3, <1>4, <1>5 DEF CopyRow
<1>7. job' = [job EXCEPT ![w] = new]
  BY <1>1, <1>2
<1>8. /\ new \in JobType /\ new.message = j.message /\ new.inbox = j.inbox \cup rows
      /\ new.found = j.found /\ new.mail = j.mail /\ new.todo = j.todo \ {r}
      /\ new.pc = "index" /\ new.cur = r
  BY <1>2, <1>3, <1>4, <1>6 DEF JobType
<1>9. \A x : [in |-> x, of |-> <<r, j.mail>>] \in rows <=> x \in Resolve(r, Group(r, j.mail))
  OBVIOUS
<1>10. \A c \in rows : c.of = <<r, j.mail>> /\ OwnerOf[c.in[1]] = r
  BY <1>5
<1>11. \A c \in j.inbox : c.of[1] # r /\ c.of # <<r, j.mail>>
  BY <1>3 DEF Routed
<1> HIDE DEF rows, new
<1>12. JobOK(new)
  <2>1. \A c \in new.inbox : c.of[2] = j.mail /\ c.of[1] \in Groups(j.mail) \ (j.todo \ {r})
    BY <1>3, <1>8, <1>10 DEF Routed
  <2>2. ASSUME NEW s \in Groups(j.mail) \ (j.todo \ {r}), NEW x \in Mailboxes
        PROVE  [in |-> x, of |-> <<s, j.mail>>] \in new.inbox
                    <=> \E a \in Group(s, j.mail) : Serves(x, a)
    <3>1. CASE s = r
      <4>1. [in |-> x, of |-> <<r, j.mail>>] \notin j.inbox
        <5>1. SUFFICES ASSUME [in |-> x, of |-> <<r, j.mail>>] \in j.inbox PROVE FALSE
          OBVIOUS
        <5>2. [in |-> x, of |-> <<r, j.mail>>].of # <<r, j.mail>>
          BY <5>1, <1>11
        <5>3. QED
          BY <5>2
      <4>2. QED
        BY <3>1, <4>1, <1>5, <1>8, <1>9
    <3>2. CASE s # r
      <4>1. [in |-> x, of |-> <<s, j.mail>>] \notin rows
        <5>1. SUFFICES ASSUME [in |-> x, of |-> <<s, j.mail>>] \in rows PROVE FALSE
          OBVIOUS
        <5>2. [in |-> x, of |-> <<s, j.mail>>].of = <<r, j.mail>>
          BY <5>1, <1>10
        <5>3. QED
          BY <5>2, <3>2
      <4>2. QED
        BY <3>2, <4>1, <1>3, <1>8 DEF Routed
    <3>3. QED
      BY <3>1, <3>2
  <2>3. Routed(new)
    BY <1>8, <2>1, <2>2 DEF Routed
  <2>4. \A c \in new.inbox : OwnerOf[c.in[1]] = c.of[1]
    BY <1>2, <1>8, <1>10 DEF JobOK
  <2>5. j.found = {c \in j.inbox : j.mail \notin Hopeless}
    BY <1>2 DEF JobOK
  <2>6. new.found = {c \in new.inbox : new.mail \notin Hopeless
                            /\ ~(new.pc = "index" /\ c.of = <<new.cur, new.mail>>)}
    BY <1>8, <1>10, <1>11, <2>5
  <2>7. new.message = j.message /\ \A p \in j.message : p.thread[1] = p.of[1]
    BY <1>2, <1>8 DEF JobOK
  <2>8. r \in Groups(j.mail)
    BY <1>3
  <2>9. QED
    BY <1>3, <1>8, <2>3, <2>4, <2>6, <2>7, <2>8 DEF JobOK
<1>13. UNCHANGED <<pointers, mailTables>> /\ new.mail = j.mail /\ j.pc # "idle"
  BY <1>2, <1>8 DEF RouteAndDeliver
<1>14. QED
  BY <1>7, <1>12, <1>13, JobMoves

\* After the index of a group is done with, its copies are found unless there is no hope.
LEMMA IndexEnds ==
    ASSUME DeliveryConstants, MailInv, NEW w \in Workers, job[w].pc = "index",
           NEW f, f = {c \in job[w].inbox : job[w].mail \notin Hopeless},
           NEW new, new = [job[w] EXCEPT !.found = f, !.pc = AfterGroup(job[w])],
           job' = [job EXCEPT ![w] = new], UNCHANGED <<pointers, mailTables>>
    PROVE  MailInv'
<1> DEFINE j == job[w]
<1>1. JobOK(j) /\ j \in JobType
  BY DEF MailInv, TablesOK
<1>2. f \subseteq CopyRow
  BY <1>1 DEF JobType
<1>3. /\ new \in JobType /\ new.message = j.message /\ new.inbox = j.inbox
      /\ new.found = f /\ new.mail = j.mail /\ new.todo = j.todo /\ new.cur = j.cur
      /\ new.pc = AfterGroup(j)
  BY <1>1, <1>2 DEF JobType, AfterGroup
<1>4. new.pc \in {"route", "commit"} /\ (new.pc = "commit" => j.todo = {})
  BY <1>3 DEF AfterGroup
<1>5. Routed(new)
  BY <1>1, <1>3 DEF JobOK, Routed
<1>6. JobOK(new)
  BY <1>1, <1>3, <1>4, <1>5 DEF JobOK
<1>7. QED
  BY <1>3, <1>6, JobMoves

\* The index rows follow the copies of the group that was just delivered.
LEMMA WriteIndexInv ==
    ASSUME DeliveryConstants, MailInv, NEW w \in Workers, WriteIndex(w)
    PROVE  MailInv'
<1> DEFINE j == job[w]
           f == j.found \cup Delivered(j)
<1>1. JobOK(j) /\ j \in JobType /\ job \in [Workers -> JobType] /\ j.pc = "index"
  BY DEF MailInv, TablesOK, WriteIndex
<1>2. f = {c \in j.inbox : j.mail \notin Hopeless}
  BY <1>1 DEF JobOK, Delivered, WriteIndex
<1>3. job' = [job EXCEPT ![w] = [j EXCEPT !.found = f, !.pc = AfterGroup(j)]]
  BY <1>1 DEF WriteIndex
<1>4. UNCHANGED <<pointers, mailTables>>
  BY DEF WriteIndex
<1> HIDE DEF f
<1>5. QED
  BY <1>1, <1>2, <1>3, <1>4, IndexEnds

\* A failure keeps the copies without index rows only if the text is hopeless.
LEMMA IndexFailsInv ==
    ASSUME DeliveryConstants, MailInv, NEW w \in Workers, IndexFails(w)
    PROVE  MailInv'
<1> DEFINE j == job[w]
<1>1. JobOK(j) /\ j \in JobType /\ job \in [Workers -> JobType] /\ j.pc = "index"
  BY DEF MailInv, TablesOK, IndexFails
<1>2. UNCHANGED <<pointers, mailTables>>
  BY DEF IndexFails
<1>3. CASE j.mail \in Hopeless /\ job' = [job EXCEPT ![w] = AfterFailure(j, "content")]
  <2>1. job' = [job EXCEPT ![w] = [j EXCEPT !.pc = AfterGroup(j)]]
    BY <1>3 DEF AfterFailure, IsTransient
  <2>2. j.found = {c \in j.inbox : j.mail \notin Hopeless}
    BY <1>1, <1>3 DEF JobOK
  <2>3. [j EXCEPT !.pc = AfterGroup(j)] = [j EXCEPT !.found = j.found, !.pc = AfterGroup(j)]
    BY <1>1 DEF JobType
  <2>4. QED
    BY <1>1, <1>2, <2>1, <2>2, <2>3, IndexEnds
<1>4. CASE job' = [job EXCEPT ![w] = NoJob]
  BY <1>2, <1>4, NoJobOK, JobMoves DEF NoJob
<1>5. QED
  BY <1>3, <1>4 DEF IndexFails, AfterFailure, IsTransient

\* What a transaction has gathered is what the tables must show of its mail.
LEMMA CommitMailInv ==
    ASSUME DeliveryConstants, MailInv, NEW w \in Workers, CommitMail(w)
    PROVE  MailInv'
<1> DEFINE j == job[w]
<1>1. JobOK(j) /\ j \in JobType /\ job \in [Workers -> JobType] /\ j.pc = "commit"
  BY DEF MailInv, TablesOK, CommitMail
<1>2. j.mail \in Mails /\ j.todo = {} /\ Routed(j) /\ j.mail \notin done
  BY <1>1 DEF JobOK, MailInv
<1>3. /\ done' = done \cup {j.mail} /\ message' = message \cup j.message
      /\ inbox' = inbox \cup j.inbox /\ found' = found \cup j.found
      /\ job' = [job EXCEPT ![w] = NoJob] /\ UNCHANGED pointers
  BY DEF CommitMail
<1>4. \A v \in Workers : job'[v] = IF v = w THEN NoJob ELSE job[v]
  BY <1>1, <1>3
<1>5. NoJob \in JobType /\ JobOK(NoJob)
  BY NoJobOK DEF JobOK
<1>6. TablesOK'
  BY <1>1, <1>2, <1>3, <1>5 DEF MailInv, TablesOK, JobType, pointers
<1>7. \A v \in Workers : JobOK(job[v])'
  <2>1. \A i : JobOK(i) => JobOK(i)'
    BY <1>3 DEF pointers, JobOK, Routed, Groups, Group, To, Serves
  <2>2. QED
    BY <1>4, <1>5, <2>1 DEF MailInv
<1>8. /\ \A v \in Workers : job'[v].pc # "idle" => job'[v].mail \notin done'
      /\ \A u, v \in Workers : u # v /\ job'[u].pc # "idle" => job'[u].mail # job'[v].mail
  <2>1. NoJob.pc = "idle" /\ NoJob.mail = Nobody /\ Nobody \notin Mails
    BY DEF NoJob, DeliveryConstants
  <2>2. \A v \in Workers : job[v].pc # "idle" => job[v].mail \in Mails
    BY DEF MailInv, JobOK
  <2>3. \A u, v \in Workers : u # v /\ job[u].pc # "idle" => job[u].mail # job[v].mail
    BY DEF MailInv
  <2>4. \A v \in Workers : job[v].pc # "idle" => job[v].mail \notin done
    BY DEF MailInv
  <2>5. QED
    BY <1>3, <1>4, <2>1, <2>2, <2>3, <2>4
<1>9. \A c \in j.inbox : c.of[2] = j.mail /\ c.of[1] \in Groups(j.mail)
  BY <1>2 DEF Routed
<1>10. \A c \in inbox' : c.of[2] \in done'
  BY <1>3, <1>9 DEF MailInv
<1>11. CopiesStayInTenant' /\ ThreadsStayInTenant'
  BY <1>1, <1>3 DEF MailInv, JobOK, CopiesStayInTenant, ThreadsStayInTenant
<1>12. DeliveredIsFound'
  <2>1. j.found = {c \in j.inbox : c.of[2] \notin Hopeless}
    BY <1>1, <1>9 DEF JobOK
  <2>2. QED
    BY <1>3, <2>1 DEF MailInv, DeliveredIsFound
<1>13. ASSUME NEW x \in Mailboxes
       PROVE  (\E c \in j.inbox : c.in = x) <=> \E a \in To(j.mail) : Serves(x, a)
  <2>1. ASSUME NEW c \in j.inbox, c.in = x
        PROVE  \E a \in To(j.mail) : Serves(x, a)
    <3>1. c \in CopyRow /\ c.of[2] = j.mail /\ c.of[1] \in Groups(j.mail)
      BY <1>1, <1>9 DEF JobType
    <3>2. c = [in |-> x, of |-> <<c.of[1], j.mail>>]
      BY <2>1, <3>1 DEF CopyRow
    <3>3. PICK a \in Group(c.of[1], j.mail) : Serves(x, a)
      BY <1>2, <3>1, <3>2 DEF Routed
    <3>4. QED
      BY <3>3 DEF Group
  <2>2. ASSUME NEW a \in To(j.mail), Serves(x, a)
        PROVE  \E c \in j.inbox : c.in = x
    <3> DEFINE r == OwnerOf[a[1]]
    <3>1. r # Nobody
      BY <2>2 DEF Serves, DeliveryConstants
    <3>2. r \in Groups(j.mail) /\ a \in Group(r, j.mail)
      BY <3>1 DEF Groups, Group
    <3>3. [in |-> x, of |-> <<r, j.mail>>] \in j.inbox
      BY <1>2, <2>2, <3>2 DEF Routed
    <3>4. QED
      BY <3>3
  <2>3. QED
    BY <2>1, <2>2
<1>14. RecipientsAreServed'
  <2>1. \A m : To(m)' = To(m) /\ \A x, a : Serves(x, a)' <=> Serves(x, a)
    BY <1>3 DEF To, Serves, pointers
  <2>2. SUFFICES ASSUME NEW m \in done', NEW x \in Mailboxes
        PROVE  (\E c \in inbox' : c.in = x /\ c.of[2] = m) <=> \E a \in To(m) : Serves(x, a)
    BY <2>1 DEF RecipientsAreServed
  <2>3. CASE m = j.mail
    <3>1. \A c \in inbox : c.of[2] # m
      BY <1>2, <2>3 DEF MailInv
    <3>2. QED
      BY <1>3, <1>9, <1>13, <2>3, <3>1
  <2>4. CASE m # j.mail
    BY <1>3, <1>9, <2>4 DEF MailInv, RecipientsAreServed
  <2>5. QED
    BY <2>3, <2>4
<1>15. QED
  BY <1>6, <1>7, <1>8, <1>10, <1>11, <1>12, <1>14 DEF MailInv

-----------------------------------------------------------------------------
\* Rows and open transactions agree with the recipients, in every reachable state: the
\* inductive invariant.
THEOREM MailInvariant == MailSpec => []MailInv
<1>1. MailInit => MailInv
  <2> SUFFICES ASSUME MailInit PROVE MailInv
    OBVIOUS
  <2>1. \A w \in Workers : job[w] = NoJob
    BY DEF MailInit
  <2>2. JobOK(NoJob)
    BY NoJobOK, DeliveryConstants
  <2>3. TablesOK
    BY <2>2 DEF MailInit, TablesOK, JobOK
  <2>4. NoJob.pc = "idle"
    BY DEF NoJob
  <2>5. QED
    BY <2>1, <2>2, <2>3, <2>4 DEF MailInit, MailInv, CopiesStayInTenant, ThreadsStayInTenant,
                                  RecipientsAreServed, DeliveredIsFound
<1>2. MailInv /\ [MailNext]_mailVars => MailInv'
  <2> SUFFICES ASSUME MailInv, [MailNext]_mailVars PROVE MailInv'
    OBVIOUS
  <2> USE DeliveryConstants
  <2>1. CASE UNCHANGED mailVars
    <3>1. \A j : JobOK(j) => JobOK(j)'
      BY <2>1 DEF mailVars, pointers, JobOK, Routed, Groups, Group, To, Serves
    <3>2. TablesOK' /\ \A w \in Workers : JobOK(job[w])'
      BY <2>1, <3>1 DEF mailVars, pointers, mailTables, MailInv, TablesOK
    <3>3. (CopiesStayInTenant /\ ThreadsStayInTenant /\ RecipientsAreServed /\ DeliveredIsFound)'
      BY <2>1 DEF mailVars, pointers, mailTables, MailInv, CopiesStayInTenant,
                  ThreadsStayInTenant, RecipientsAreServed, DeliveredIsFound, To, Serves
    <3>4. QED
      BY <2>1, <3>2, <3>3 DEF mailVars, mailTables, MailInv
  <2>2. ASSUME NEW w \in Workers, NEW m \in Mails, ClaimMail(w, m) PROVE MailInv'
    BY <2>2, ClaimMailInv
  <2>3. ASSUME NEW w \in Workers, StoreMessage(w) PROVE MailInv'
    BY <2>3, StoreMessageInv
  <2>4. ASSUME NEW w \in Workers, RouteAndDeliver(w) PROVE MailInv'
    BY <2>4, RouteAndDeliverInv
  <2>5. ASSUME NEW w \in Workers, WriteIndex(w) PROVE MailInv'
    BY <2>5, WriteIndexInv
  <2>6. ASSUME NEW w \in Workers, IndexFails(w) PROVE MailInv'
    BY <2>6, IndexFailsInv
  <2>7. ASSUME NEW w \in Workers, CommitMail(w) PROVE MailInv'
    BY <2>7, CommitMailInv
  <2>8. ASSUME NEW w \in Workers, MailFails(w) PROVE MailInv'
    BY <2>8, NoJobOK, JobMoves DEF MailFails, NoJob
  <2>9. QED
    BY <2>1, <2>2, <2>3, <2>4, <2>5, <2>6, <2>7, <2>8 DEF MailNext, Process
<1>3. QED
  BY <1>1, <1>2, PTL DEF MailSpec

\* No copy crosses a tenant boundary, wherever aliases and catch-alls point.
THEOREM CopiesStay == MailSpec => []CopiesStayInTenant
<1>1. MailInv => CopiesStayInTenant
  BY DEF MailInv
<1>2. QED
  BY <1>1, MailInvariant, PTL

\* No conversation crosses a tenant boundary, whatever Message-IDs senders choose.
THEOREM ThreadsStay == MailSpec => []ThreadsStayInTenant
<1>1. MailInv => ThreadsStayInTenant
  BY DEF MailInv
<1>2. QED
  BY <1>1, MailInvariant, PTL

\* A processed mail is in exactly the mailboxes its recipients lead to.
THEOREM RecipientsServed == MailSpec => []RecipientsAreServed
<1>1. MailInv => RecipientsAreServed
  BY DEF MailInv
<1>2. QED
  BY <1>1, MailInvariant, PTL

\* Delivered mail is in the index, unless its own text cannot be.
THEOREM DeliveredFound == MailSpec => []DeliveredIsFound
<1>1. MailInv => DeliveredIsFound
  BY DEF MailInv
<1>2. QED
  BY <1>1, MailInvariant, PTL
=============================================================================

------------------------------ MODULE Delivery ------------------------------
(***************************************************************************)
(* Who gets a mail: process_event for several resellers at once            *)
(* (worker/pipeline.py), the resolution of recipients (worker/routing.py), *)
(* the conversation a mail joins, and its rows in the search index         *)
(* (search_index.py).  What AttachmentStore takes as given - which         *)
(* mailboxes a message reaches - is computed here.                         *)
(*                                                                         *)
(* A mailbox is named by its address <<domain, local part>>; alias and     *)
(* catch-all rows are written by hand, and the schema lets them point into *)
(* any domain.  A message is named by <<reseller, mail>>.                  *)
(***************************************************************************)
EXTENDS Integers, FiniteSets

CONSTANTS
    Workers, Mails,     \* processes; mail.received events
    OwnerOf,            \* domain.reseller_id of every name; Nobody: there is no such row
    Mailboxes,          \* mailbox rows
    Aliases,            \* what the alias table may hold: functions from addresses to mailboxes
    CatchAlls,          \* what domain.catch_all_mailbox_id may be
    Envelopes,          \* what the events and their headers may say
    Hopeless,           \* mails no index row can be made of
    MaxFailures,        \* bound: failures in one behaviour
    Nobody

Names     == DOMAIN OwnerOf
Resellers == {OwnerOf[d] : d \in Names} \ {Nobody}

ASSUME DeliveryConstants ==
    /\ \A x \in Mailboxes : x[1] \in Names /\ OwnerOf[x[1]] # Nobody
    /\ \A al \in Aliases : \A a \in DOMAIN al : al[a] \in Mailboxes
    /\ CatchAlls \subseteq [Names -> Mailboxes \cup {Nobody}]
    /\ \A env \in Envelopes : DOMAIN env = Mails /\ \A m \in Mails : \A a \in env[m].to : a[1] \in Names
    /\ Hopeless \subseteq Mails /\ MaxFailures \in Nat /\ Nobody \notin Mailboxes \cup Mails

VARIABLES
    alias, catchAll,    \* the pointers, as somebody has set them
    envelope,           \* mail -> [to, id, reply, at]: recipients, Message-ID, In-Reply-To, received_at
    done,               \* processed_event rows
    message,            \* message rows [of: <<reseller, mail>>, thread]
    inbox,              \* mailbox_message rows [in: mailbox, of: message]
    found,              \* message_index rows, likewise
    job,                \* the workers' transactions
    failures

mailTables == <<done, message, inbox, found>>
pointers   == <<alias, catchAll, envelope>>
mailVars   == <<pointers, mailTables, job, failures>>

NoJob == [pc |-> "idle", mail |-> Nobody, todo |-> {}, cur |-> Nobody,
          message |-> {}, inbox |-> {}, found |-> {}]

MailInit ==
    /\ alias \in Aliases /\ catchAll \in CatchAlls /\ envelope \in Envelopes
    /\ done = {} /\ message = {} /\ inbox = {} /\ found = {}
    /\ job = [w \in Workers |-> NoJob]
    /\ failures = 0

-----------------------------------------------------------------------------
\* _group_by_reseller: the resellers that own a recipient's domain, and whose each is.
To(m)        == envelope[m].to
Groups(m)    == {OwnerOf[a[1]] : a \in To(m)} \ {Nobody}
Group(r, m)  == {a \in To(m) : OwnerOf[a[1]] = r}

\* The replay guard; a mail of domains that are gone is dropped for good.
ClaimMail(w, m) ==
    /\ job[w].pc = "idle" /\ m \notin done
    /\ \A v \in Workers : job[v].mail # m
    /\ job' = [job EXCEPT ![w] = [NoJob EXCEPT !.mail = m, !.todo = Groups(m),
                    !.pc = IF Groups(m) = {} THEN "commit" ELSE "store"]]
    /\ UNCHANGED <<pointers, mailTables, failures>>

\* _thread_id: messages of this reseller that carry the Message-ID which is replied to, ...
\* Mutant: whoever they belong to.
AnyParents(r, m) == {p \in message : envelope[p.of[2]].id = envelope[m].reply}
Parents(r, m)    == {p \in message : p.of[1] = r /\ envelope[p.of[2]].id = envelope[m].reply}
\* ... of which the oldest counts; with none, a conversation begins.
Oldest(P)        == {p \in P : \A q \in P : envelope[p.of[2]].at <= envelope[q.of[2]].at}
ThreadsFor(r, m) ==
    IF envelope[m].reply = Nobody \/ Parents(r, m) = {} THEN {<<r, m>>}
    ELSE {p.thread : p \in Oldest(Parents(r, m))}

\* _store_message, for one reseller after the other; then the first group is routed.
StoreMessage(w) ==
    LET j == job[w] IN
    /\ j.pc = "store"
    /\ \E r \in j.todo : \E t \in ThreadsFor(r, j.mail) :
        LET left == j.todo \ {r} IN
        job' = [job EXCEPT ![w].message = @ \cup {[of |-> <<r, j.mail>>, thread |-> t]},
                           ![w].todo = IF left = {} THEN Groups(j.mail) ELSE left,
                           ![w].pc = IF left = {} THEN "route" ELSE "store"]
    /\ UNCHANGED <<pointers, mailTables, failures>>

-----------------------------------------------------------------------------
(* routing.resolve                                                         *)

\* The chain: alias, mailbox, catch-all, nothing.
\* Mutant: the alias dictionary is keyed by local part.
TargetByLocal(a) ==
    IF \E b \in DOMAIN alias : b[2] = a[2] THEN alias[CHOOSE b \in DOMAIN alias : b[2] = a[2]]
    ELSE IF a \in Mailboxes THEN a ELSE catchAll[a[1]]
Target(a) ==
    IF a \in DOMAIN alias THEN alias[a] ELSE IF a \in Mailboxes THEN a ELSE catchAll[a[1]]

\* The last gate: a pointer may lead out of the tenant.
\* Mutant: no gate.
Anyones(r, X)  == X
OnlyOurs(r, X) == {x \in X : OwnerOf[x[1]] = r}
Resolve(r, A)  == OnlyOurs(r, {Target(a) : a \in A} \ {Nobody})

\* Resolve and deliver, one group after the other.
RouteAndDeliver(w) ==
    LET j == job[w] IN
    /\ j.pc = "route"
    /\ \E r \in j.todo :
        job' = [job EXCEPT ![w].cur = r, ![w].todo = @ \ {r}, ![w].pc = "index",
                    ![w].inbox = @ \cup {[in |-> x, of |-> <<r, j.mail>>] :
                                            x \in Resolve(r, Group(r, j.mail))}]
    /\ UNCHANGED <<pointers, mailTables, failures>>

Delivered(j) == {c \in j.inbox : c.of = <<j.cur, j.mail>>}
AfterGroup(j) == IF j.todo = {} THEN "commit" ELSE "route"

\* search_index.write succeeds, or there is nothing to index.
WriteIndex(w) ==
    LET j == job[w] IN
    /\ j.pc = "index"
    /\ j.mail \notin Hopeless \/ Delivered(j) = {}
    /\ job' = [job EXCEPT ![w].found = @ \cup Delivered(j), ![w].pc = AfterGroup(j)]
    /\ UNCHANGED <<pointers, mailTables, failures>>

\* Its failures: the text cannot be indexed (54000); a deadlock, a lost connection, a
\* shutdown (08, 40, 53, 57); one of the client library, which carries no SQLSTATE.
\* Mutants: the SQLSTATE decides alone; every failure is worth a retry.
BySqlstate(f)     == f = "server"
AnyFailure(f)     == TRUE
IsTransient(f)    == f \in {"server", "client"}
\* One that is transient goes out and rolls everything back; otherwise the savepoint keeps
\* the mail.
AfterFailure(j, f) == IF IsTransient(f) THEN NoJob ELSE [j EXCEPT !.pc = AfterGroup(j)]
IndexFails(w) ==
    LET j == job[w] IN
    /\ j.pc = "index" /\ Delivered(j) # {}
    /\ \/ /\ j.mail \in Hopeless
          /\ job' = [job EXCEPT ![w] = AfterFailure(j, "content")]
          /\ UNCHANGED failures
       \/ \E f \in {"server", "client"} :
            /\ failures < MaxFailures /\ failures' = failures + 1
            /\ job' = [job EXCEPT ![w] = AfterFailure(j, f)]
    /\ UNCHANGED <<pointers, mailTables>>

CommitMail(w) ==
    LET j == job[w] IN
    /\ j.pc = "commit"
    /\ done' = done \cup {j.mail}
    /\ message' = message \cup j.message
    /\ inbox' = inbox \cup j.inbox
    /\ found' = found \cup j.found
    /\ job' = [job EXCEPT ![w] = NoJob]
    /\ UNCHANGED <<pointers, failures>>

\* Anything else that fails: the event is redelivered.
MailFails(w) ==
    /\ job[w].pc # "idle" /\ failures < MaxFailures
    /\ failures' = failures + 1
    /\ job' = [job EXCEPT ![w] = NoJob]
    /\ UNCHANGED <<pointers, mailTables>>

Process(w) ==
    \/ \E m \in Mails : ClaimMail(w, m)
    \/ StoreMessage(w) \/ RouteAndDeliver(w) \/ WriteIndex(w) \/ IndexFails(w) \/ CommitMail(w)
MailNext == \E w \in Workers : Process(w) \/ MailFails(w)
MailSpec == MailInit /\ [][MailNext]_mailVars

-----------------------------------------------------------------------------
\* A copy lies in a mailbox of its message's reseller, wherever an alias or a catch-all
\* points (routing.py:144-162: the failure would be silent).
CopiesStayInTenant == \A c \in inbox : OwnerOf[c.in[1]] = c.of[1]

\* A conversation belongs to one reseller: whose mail started it and whose mail it is
\* (pipeline.py:257-265: Message-IDs are written by the sender, and may be anybody's).
ThreadsStayInTenant == \A p \in message : p.thread[1] = p.of[1]

\* Where an address leads when nothing is missing: the first of alias, mailbox and
\* catch-all that exists, if it is of the same tenant.
Serves(x, a) ==
    /\ OwnerOf[x[1]] = OwnerOf[a[1]]
    /\ \/ a \in DOMAIN alias /\ alias[a] = x
       \/ a \notin DOMAIN alias /\ a = x
       \/ a \notin DOMAIN alias /\ a \notin Mailboxes /\ catchAll[a[1]] = x

\* Every recipient of a processed mail is served, and nobody else is: whatever resellers,
\* aliases and catch-alls it mixes, and however often it was retried (routing.py:59-141).
RecipientsAreServed ==
    \A m \in done : \A x \in Mailboxes :
        (\E c \in inbox : c.in = x /\ c.of[2] = m) <=> (\E a \in To(m) : Serves(x, a))

\* Delivered mail can be found, unless its own text cannot be indexed; and the index finds
\* nothing that was not delivered (search_index.py:153-171, 254-269).
DeliveredIsFound == found = {c \in inbox : c.of[2] \notin Hopeless}

\* A mail that was begun is finished: the search index makes nobody retry for ever
\* (search_index.py:77-82, 167-171).
MailsEnd == \A m \in Mails : (\E w \in Workers : job[w].mail = m) ~> (m \in done)
=============================================================================

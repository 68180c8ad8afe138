------------------------------- MODULE Reading -------------------------------
(***************************************************************************)
(* A reader's list of mail: the pages the API serves (routers/messages.py, *)
(* routers/search.py, cursor.py, visibility.py) and the list the web       *)
(* client builds of them (hooks.ts usePaged, routes/Mail.tsx, Search.tsx), *)
(* while mail arrives, is moved, snoozed, woken and deleted.  A request    *)
(* reads the database at one moment and is answered at a later one;        *)
(* answers overtake each other.                                            *)
(*                                                                         *)
(* A copy is <<mailbox, message>>, a row of mailbox_message; both ids are  *)
(* numbers, because pages are ordered by them.                             *)
(***************************************************************************)
EXTENDS Integers, Sequences, FiniteSets, Functions

CONSTANTS
    Copies,             \* the copies that will exist
    ReceivedAt,         \* message -> when it arrived
    Tenant,             \* mailbox -> its reseller
    Members,            \* shared_mailbox_member rows <<shared, member>>
    Me,                 \* the reader's own mailbox
    Folders,
    Matches,            \* query -> the messages with an index row that it finds
    Limit,              \* rows per page
    MaxCalls,           \* bound: first pages asked for by one mounted list
    MaxChanges,         \* bound: moves, snoozes and deletes
    None

Messages   == DOMAIN ReceivedAt
MailboxIds == DOMAIN Tenant
Queries    == DOMAIN Matches

ASSUME ReadingConstants ==
    /\ ReceivedAt \in [Messages -> Nat] /\ Messages \subseteq Nat /\ IsFiniteSet(Copies)
    /\ Copies \subseteq MailboxIds \X Messages /\ MailboxIds \subseteq Nat
    /\ Me \in MailboxIds /\ Members \subseteq MailboxIds \X MailboxIds
    /\ "inbox" \in Folders /\ "search" \notin Folders
    /\ Matches \in [Queries -> SUBSET Messages]
    /\ Limit \in Nat \ {0} /\ MaxCalls \in Nat /\ MaxChanges \in Nat
    /\ None \notin Copies

\* What a list can show: a folder, without or with only its snoozed mail; a query's hits.
Views == [path : Folders, arg : BOOLEAN] \cup [path : {"search"}, arg : Queries]

VARIABLES
    row,         \* mailbox_message: copy -> [folder, snoozed], for the copies there are
    gone,        \* copies deleted
    changes,
    view,        \* what the URL names
    call,        \* latest.current: the number of the newest request for a first page
    items,       \* usePaged's rows [copy, was], as they were read; and the rest of its state
    cursor, loading, loadingMore, error,
    flights,     \* requests in the air [call, view, from, page]; page None: not read yet
    steady       \* history: copies in view ever since the list's first page was read

server   == <<row, gone, changes>>
screen   == <<view, call, items, cursor, loading, loadingMore, error>>
readVars == <<server, screen, flights, steady>>

-----------------------------------------------------------------------------
(* The API                                                                 *)

\* visibility.readable_mailboxes: one's own and the shared ones of the same reseller.
\* Mutant: the membership alone.
AnyShared(x) == {x} \cup {s \in MailboxIds : <<s, x>> \in Members}
Readable(x)  == {x} \cup {s \in MailboxIds : <<s, x>> \in Members /\ Tenant[s] = Tenant[x]}

\* The order of every page: received_at, then message id, then mailbox id.
Before(c, d) ==
    LET s == ReceivedAt[c[2]]  t == ReceivedAt[d[2]] IN
    s < t \/ (s = t /\ (c[2] < d[2] \/ (c[2] = d[2] /\ c[1] < d[1])))

\* The comparison with the cursor, which is the key of the last row of a page.
\* Mutant: a key without the mailbox.
OlderMessage(c, cur) ==
    LET s == ReceivedAt[c[2]]  t == ReceivedAt[cur[2]] IN s < t \/ (s = t /\ c[2] < cur[2])
OlderThan(c, cur) == Before(c, cur)

\* The WHERE clauses of list_messages, and of search: every folder, snoozed or not.
InView(rows, v) ==
    {c \in DOMAIN rows :
        /\ c[1] \in Readable(Me)
        /\ \/ v.path = "search" /\ c[2] \in Matches[v.arg]
           \/ v.path # "search" /\ rows[c] = [folder |-> v.path, snoozed |-> v.arg]}

\* ORDER BY ... DESC LIMIT: the first Limit of the rows S, newest first.
Newest(S) ==
    {s \in UNION {[1..n -> S] : n \in 0..Limit} :
        /\ \A i, j \in DOMAIN s : i < j => Before(s[j], s[i])
        /\ \A c \in S \ Range(s) : Len(s) = Limit /\ Before(c, s[Limit])}

\* The extra row that is asked for only says that there is a next page.
Pages(v, from) ==
    LET hits == {c \in InView(row, v) : from = None \/ OlderThan(c, from)} IN
    {[rows |-> [i \in DOMAIN s |-> [copy |-> s[i], was |-> row[s[i]]]],
      next |-> IF hits \subseteq Range(s) THEN None ELSE s[Limit]] : s \in Newest(hits)}

\* _one_copy: the copy that is named, or the only one there is.
\* Mutant: every copy that can be read.
Allowed(x, m)      == {c \in DOMAIN row : c[2] = m /\ c[1] \in Readable(x)}
EveryCopyOf(x, m, named) == Allowed(x, m)
OneCopy(x, m, named) ==
    IF named # None THEN Allowed(x, m) \cap {<<named, m>>}
    ELSE IF Cardinality(Allowed(x, m)) = 1 THEN Allowed(x, m) ELSE {}

\* The rows become r; what is no longer in view is not steady.
Change(r) ==
    /\ row' = r
    /\ steady' = steady \cap InView(r, view)
    /\ UNCHANGED <<screen, flights>>
Count == changes < MaxChanges /\ changes' = changes + 1

\* The worker commits all copies of a message at once.
DeliverMessage(m) ==
    LET new == {c \in Copies : c[2] = m} IN
    /\ new \cap (DOMAIN row \cup gone) = {}
    /\ Change([c \in DOMAIN row \cup new |->
                IF c \in new THEN [folder |-> "inbox", snoozed |-> FALSE] ELSE row[c]])
    /\ UNCHANGED <<gone, changes>>

\* PATCH: another folder, a snooze, or the end of one.
PatchMessage(x, m, named) ==
    LET target == OneCopy(x, m, named) IN
    /\ Count /\ target # {}
    /\ \E values \in [folder : Folders, snoozed : BOOLEAN] :
        Change([c \in DOMAIN row |-> IF c \in target THEN values ELSE row[c]])
    /\ UNCHANGED gone

DeleteMessage(x, m, named) ==
    LET target == OneCopy(x, m, named) IN
    /\ Count /\ target # {}
    /\ Change([c \in DOMAIN row \ target |-> row[c]])
    /\ gone' = gone \cup target

\* Nothing runs when a snooze ends: the predicate stops being true.
Wake(c) ==
    /\ row[c].snoozed
    /\ Change([row EXCEPT ![c].snoozed = FALSE])
    /\ UNCHANGED <<gone, changes>>

\* The query of a request runs.
AnswerRequest(f) ==
    /\ f.page = None
    /\ \E p \in Pages(f.view, f.from) : flights' = (flights \ {f}) \cup {[f EXCEPT !.page = p]}
    /\ steady' = IF f.from = None /\ f.call = call THEN InView(row, view) ELSE steady
    /\ UNCHANGED <<server, screen>>

-----------------------------------------------------------------------------
(* The client: usePaged                                                    *)

Ask(n, v, from) == [call |-> n, view |-> v, from |-> from, page |-> None]

\* The effect: everything is cleared but loadingMore, which belongs to a request.
\* Mutant: loadingMore too.
ClearedMore == FALSE
StillMore   == loadingMore
StartOver(v, n, sent) ==
    /\ call' = n
    /\ items' = <<>> /\ cursor' = None /\ error' = FALSE /\ loading' = TRUE
    /\ flights' = sent \cup {Ask(n, v, None)}
    /\ steady' = {}

\* Another path mounts another list (App.tsx keys its routes by the path): another folder,
\* a message opened, closed, or gone after a move.  Nobody listens to the old requests.
Mount(v) ==
    /\ view' = v /\ loadingMore' = FALSE
    /\ StartOver(v, 1, {})
    /\ UNCHANGED server

\* The same path with another ?snoozed or ?q runs the effect of the list that is there.
Switch(v) ==
    /\ v.path = view.path /\ v # view /\ call < MaxCalls
    /\ view' = v /\ loadingMore' = StillMore
    /\ StartOver(v, call + 1, flights)
    /\ UNCHANGED server

\* "Try again", which is shown in the place of an empty list.
Reload ==
    /\ ~loading /\ error /\ items = <<>> /\ call < MaxCalls
    /\ loadingMore' = StillMore
    /\ StartOver(view, call + 1, flights)
    /\ UNCHANGED <<view, server>>

LoadMore ==
    /\ ~loading /\ items # <<>> /\ cursor # None /\ ~loadingMore
    /\ loadingMore' = TRUE
    /\ flights' = flights \cup {Ask(call, view, cursor)}
    /\ UNCHANGED <<server, view, call, items, cursor, loading, error, steady>>

\* Mutant: no guard against old answers.
Whichever(f) == TRUE
IsLatest(f)  == f.call = call

\* `finally`: a first page ends loading if it is the latest, any other ends loadingMore.
\* Mutant: loadingMore, too, only by the latest.
MoreEndedByLatest(f) == IF f.call = call THEN FALSE ELSE loadingMore
MoreEnded(f)         == FALSE
Settle(f) ==
    /\ loading' = IF f.from = None /\ IsLatest(f) THEN FALSE ELSE loading
    /\ loadingMore' = IF f.from = None THEN loadingMore ELSE MoreEnded(f)
    /\ flights' = flights \ {f}
    /\ UNCHANGED <<server, view, call, steady>>

\* Rows as they were read; a further page is appended.
Receive(f) ==
    /\ f.page # None
    /\ Settle(f) /\ UNCHANGED error
    /\ IF IsLatest(f)
       THEN /\ items' = (IF f.from = None THEN <<>> ELSE items) \o f.page.rows
            /\ cursor' = f.page.next
       ELSE UNCHANGED <<items, cursor>>

\* Refused by the server, or lost on the way.
FailRequest(f) ==
    /\ Settle(f)
    /\ error' = (error \/ IsLatest(f))
    /\ UNCHANGED <<items, cursor>>

-----------------------------------------------------------------------------
ReadInit ==
    /\ row = [c \in {} |-> None] /\ gone = {} /\ changes = 0
    /\ view = [path |-> "inbox", arg |-> FALSE] /\ call = 1
    /\ items = <<>> /\ cursor = None /\ loading = TRUE /\ loadingMore = FALSE /\ error = FALSE
    /\ flights = {Ask(1, view, None)} /\ steady = {}

Write == \E x \in MailboxIds, m \in Messages, named \in MailboxIds \cup {None} :
            PatchMessage(x, m, named) \/ DeleteMessage(x, m, named)

ReadNext ==
    \/ \E m \in Messages : DeliverMessage(m)
    \/ Write
    \/ \E c \in DOMAIN row : Wake(c)
    \/ \E v \in Views : Mount(v) \/ Switch(v)
    \/ Reload \/ LoadMore
    \/ \E f \in flights : AnswerRequest(f) \/ Receive(f) \/ FailRequest(f)

ReadSpec == ReadInit /\ [][ReadNext]_readVars

-----------------------------------------------------------------------------
Shown == {items[i].copy : i \in DOMAIN items}

\* A list is newest first and shows no copy twice, however its pages were fetched
\* (hooks.ts:111-131: two requests for one page would append it twice).
ListIsSorted ==
    \A i, j \in DOMAIN items : i < j => Before(items[j].copy, items[i].copy)

\* When there are no more pages, everything is on the screen that was there all along:
\* arrivals, moves and deletes between two pages hide nothing (cursor.py, messages.py:106-126).
NothingIsSkipped ==
    (~loading /\ cursor = None /\ (items = <<>> => ~error)) => steady \subseteq Shown

\* A list shows what its reader may see and its own folder or query asks for: no copy of
\* another tenant, and no row of the list that was there before (visibility.py:28-38,
\* hooks.ts:98, 119).
ListShowsItsView ==
    \A i \in DOMAIN items :
        LET c == items[i].copy IN
        /\ c[1] = Me \/ (<<c[1], Me>> \in Members /\ Tenant[c[1]] = Tenant[Me])
        /\ \/ view.path = "search" /\ c[2] \in Matches[view.arg]
           \/ items[i].was = [folder |-> view.path, snoozed |-> view.arg]

\* "Loading" and "Load older, loading" are shown exactly while the request they stand for
\* is in the air: no spinner for ever, and no second request beside a first
\* (hooks.ts:107-131).
SpinnersAreTrue ==
    /\ loading <=> (\E f \in flights : f.from = None /\ f.call = call)
    /\ loadingMore <=> (\E f \in flights : f.from # None)
    /\ \A f, g \in flights : f.from # None /\ g.from # None => f = g

\* A write changes one copy of a message at most: to write to every copy the reader sees is
\* the dangerous default it replaces, and destroys a team's only one
\* (messages.py:249-260).
WritesTouchOneCopy ==
    [][\A c, d \in DOMAIN row :
        (\A e \in {c, d} : e \notin DOMAIN row' \/ row'[e] # row[e]) => c = d]_readVars
=============================================================================

--------------------------- MODULE Reading_proofs ---------------------------
(***************************************************************************)
(* Theorems about Reading, for any copies, mailboxes, views, page length   *)
(* and number of requests in the air.                                      *)
(***************************************************************************)
EXTENDS Reading, FiniteSetTheorems, TLAPS

Value    == [folder : Folders, snoozed : BOOLEAN]
Entry    == [copy : Copies, was : Value]
PageType == [rows : Seq(Entry), next : Copies \cup {None}]
Flight   == [call : Nat, view : Views, from : Copies \cup {None}, page : PageType \cup {None}]

RowsOK == row \in [DOMAIN row -> Value] /\ DOMAIN row \subseteq Copies

ReadType ==
    /\ RowsOK
    /\ view \in Views /\ call \in Nat /\ items \in Seq(Entry) /\ cursor \in Copies \cup {None}
    /\ loading \in BOOLEAN /\ loadingMore \in BOOLEAN /\ error \in BOOLEAN
    /\ flights \subseteq Flight

\* Row e belongs into view v.
Shows(e, v) ==
    /\ e.copy[1] = Me \/ (<<e.copy[1], Me>> \in Members /\ Tenant[e.copy[1]] = Tenant[Me])
    /\ \/ v.path = "search" /\ e.copy[2] \in Matches[v.arg]
       \/ e.was = [folder |-> v.path, snoozed |-> v.arg]
SortedRows(r) == \A i, j \in DOMAIN r : i < j => Before(r[j].copy, r[i].copy)
\* Row e is cur, or comes before it in the list.
UpTo(e, cur)  == e.copy = cur \/ Before(cur, e.copy)
\* Copy c is among the rows r, or on a page that begins behind next.
Ahead(c, r, next) == (\E i \in DOMAIN r : r[i].copy = c) \/ (next # None /\ Before(c, next))

PageOK(p, v, from) ==
    /\ SortedRows(p.rows)
    /\ \A i \in DOMAIN p.rows : Shows(p.rows[i], v)
    /\ p.next # None => \A i \in DOMAIN p.rows : UpTo(p.rows[i], p.next)
    /\ from # None => /\ \A i \in DOMAIN p.rows : Before(p.rows[i].copy, from)
                      /\ p.next # None => Before(p.next, from)

\* What is in the air for the list that is shown continues it where it ends.
FlightsOK ==
    /\ \A f \in flights :
        /\ f.call <= call
        /\ f.page # None => PageOK(f.page, f.view, f.from)
        /\ f.call = call => f.view = view
        /\ f.call = call /\ f.from # None => ~loading /\ f.from = cursor /\ items # <<>>
    /\ \A f, g \in flights : f.from = None /\ g.from = None /\ f.call = g.call => f = g
    /\ loading => items = <<>> /\ cursor = None /\ ~error

ListOK ==
    /\ SortedRows(items)
    /\ \A i \in DOMAIN items : Shows(items[i], view)
    /\ cursor # None => \A i \in DOMAIN items : UpTo(items[i], cursor)

\* A steady copy is shown, in the air, or still to come.
SteadyOK ==
    /\ steady \subseteq InView(row, view)
    /\ ~loading /\ (items = <<>> => ~error) => \A c \in steady : Ahead(c, items, cursor)
    /\ \A f \in flights : f.call = call /\ f.page # None =>
        \A c \in steady : (\E i \in DOMAIN items : items[i].copy = c)
                          \/ Ahead(c, f.page.rows, f.page.next)

\* The inductive invariant.
ReadInv == ReadType /\ SpinnersAreTrue /\ FlightsOK /\ ListOK /\ SteadyOK

-----------------------------------------------------------------------------
\* The keys of the order are numbers.
LEMMA CopyIds ==
    ASSUME NEW c \in Copies
    PROVE  c[1] \in Nat /\ c[2] \in Nat /\ ReceivedAt[c[2]] \in Nat
  BY ReadingConstants DEF Messages

\* The order of pages is transitive.
LEMMA BeforeTransitive ==
    ASSUME NEW c \in Copies, NEW d \in Copies, NEW e \in Copies, Before(c, d), Before(d, e)
    PROVE  Before(c, e)
  BY CopyIds DEF Before

\* What a page is: the newest rows of the view, in order, and a cursor if there are more.
LEMMA PageFacts ==
    ASSUME RowsOK, NEW v \in Views, NEW from \in Copies \cup {None}, NEW p \in Pages(v, from)
    PROVE  /\ p \in PageType /\ PageOK(p, v, from)
           /\ \A c \in InView(row, v) :
                (from = None \/ Before(c, from)) => Ahead(c, p.rows, p.next)
<1> DEFINE hits == {c \in InView(row, v) : from = None \/ OlderThan(c, from)}
<1>1. PICK s \in Newest(hits) :
        p = [rows |-> [i \in DOMAIN s |-> [copy |-> s[i], was |-> row[s[i]]]],
             next |-> IF hits \subseteq Range(s) THEN None ELSE s[Limit]]
  BY DEF Pages
<1>2. PICK n \in 0..Limit : s \in [1..n -> hits]
  BY DEF Newest
<1>3. /\ \A i, j \in DOMAIN s : i < j => Before(s[j], s[i])
      /\ \A c \in hits \ Range(s) : Len(s) = Limit /\ Before(c, s[Limit])
  BY DEF Newest
<1>4. n \in Nat /\ DOMAIN s = 1..n /\ s \in Seq(hits) /\ Len(s) = n
  BY <1>2, ReadingConstants
<1>5. \A c \in hits : c \in Copies /\ row[c] \in Value /\ c \in DOMAIN row
  BY DEF InView, RowsOK
<1>6. \A c \in hits : Shows([copy |-> c, was |-> row[c]], v)
  BY DEF InView, Readable, Shows
<1>7. \A c \in hits : from # None => Before(c, from)
  BY DEF OlderThan
<1>8. \A c \in InView(row, v) : (from = None \/ Before(c, from)) => c \in hits
  BY DEF OlderThan
<1> HIDE DEF hits
<1>9. /\ p.rows = [i \in 1..n |-> [copy |-> s[i], was |-> row[s[i]]]]
      /\ p.next = IF hits \subseteq Range(s) THEN None ELSE s[Limit]
  BY <1>1, <1>4
<1>10. /\ DOMAIN p.rows = 1..n
       /\ \A i \in 1..n : /\ s[i] \in hits /\ p.rows[i] = [copy |-> s[i], was |-> row[s[i]]]
                          /\ p.rows[i].copy = s[i] /\ p.rows[i] \in Entry
  BY <1>2, <1>5, <1>9 DEF Entry
<1>11. p.rows \in Seq(Entry)
  BY <1>4, <1>9, <1>10
<1>12. ASSUME ~(hits \subseteq Range(s))
       PROVE  p.next = s[Limit] /\ n = Limit /\ Limit \in 1..n /\ s[Limit] \in hits
  <2>1. n = Limit
    BY <1>3, <1>4, <1>12
  <2>2. QED
    BY <1>2, <1>9, <1>12, <2>1, ReadingConstants
<1>13. p.next \in Copies \cup {None}
  BY <1>5, <1>9, <1>12
<1>14. p \in PageType
  BY <1>1, <1>11, <1>13 DEF PageType
<1>15. SortedRows(p.rows)
  <2>1. \A i, j \in 1..n : i < j => Before(s[j], s[i])
    BY <1>3, <1>4
  <2>2. SUFFICES ASSUME NEW i \in 1..n, NEW j \in 1..n, i < j
        PROVE  Before(p.rows[j].copy, p.rows[i].copy)
    BY <1>10 DEF SortedRows
  <2>3. p.rows[i].copy = s[i] /\ p.rows[j].copy = s[j]
    BY <1>10
  <2>4. QED
    BY <2>1, <2>2, <2>3
<1>16. \A i \in DOMAIN p.rows : Shows(p.rows[i], v)
  BY <1>6, <1>10
<1>17. p.next # None => \A i \in DOMAIN p.rows : UpTo(p.rows[i], p.next)
  <2> SUFFICES ASSUME p.next # None, NEW i \in 1..n PROVE UpTo(p.rows[i], p.next)
    BY <1>10
  <2>1. p.next = s[Limit] /\ n = Limit
    BY <1>9, <1>12
  <2>2. i = Limit \/ Before(s[Limit], s[i])
    BY <1>3, <1>4, <2>1, ReadingConstants
  <2>3. QED
    BY <1>10, <2>1, <2>2 DEF UpTo
<1>18. from # None => /\ \A i \in DOMAIN p.rows : Before(p.rows[i].copy, from)
                      /\ p.next # None => Before(p.next, from)
  BY <1>7, <1>9, <1>10, <1>12
<1>19. \A c \in hits : Ahead(c, p.rows, p.next)
  <2> SUFFICES ASSUME NEW c \in hits PROVE Ahead(c, p.rows, p.next)
    OBVIOUS
  <2>1. CASE c \in Range(s)
    <3>1. PICK i \in 1..n : s[i] = c
      BY <1>4, <2>1 DEF Range
    <3>2. QED
      BY <1>10, <3>1 DEF Ahead
  <2>2. CASE c \notin Range(s)
    <3>1. Before(c, s[Limit]) /\ p.next = s[Limit] /\ p.next \in Copies
      BY <1>3, <1>5, <1>12, <2>2
    <3>2. QED
      BY <3>1, ReadingConstants DEF Ahead
  <2>3. QED
    BY <2>1, <2>2
<1>20. QED
  BY <1>8, <1>14, <1>15, <1>16, <1>17, <1>18, <1>19 DEF PageOK

-----------------------------------------------------------------------------
\* The rows change; the list does not, and what is no longer in view is no longer steady.
LEMMA ServerMoves ==
    ASSUME ReadInv, RowsOK', UNCHANGED <<screen, flights>>,
           steady' = steady \cap InView(row', view)
    PROVE  ReadInv'
<1> USE DEF screen
<1>1. ReadType' /\ SpinnersAreTrue' /\ FlightsOK' /\ ListOK'
  BY DEF ReadInv, ReadType, SpinnersAreTrue, FlightsOK, ListOK
<1>2. SteadyOK'
  <2>1. steady' \subseteq InView(row', view') /\ steady' \subseteq steady
    OBVIOUS
  <2>2. \A c, r, next : Ahead(c, r, next)' <=> Ahead(c, r, next)
    BY DEF Ahead, Before
  <2>3. QED
    BY <2>1 DEF ReadInv, SteadyOK, Ahead
<1>3. QED
  BY <1>1, <1>2 DEF ReadInv

\* Mail that arrives is not steady: a list that is under way may miss it.
LEMMA DeliverInv == ASSUME ReadInv, NEW m \in Messages, DeliverMessage(m) PROVE ReadInv'
<1> DEFINE new == {c \in Copies : c[2] = m}
           r == [c \in DOMAIN row \cup new |->
                    IF c \in new THEN [folder |-> "inbox", snoozed |-> FALSE] ELSE row[c]]
<1>1. row' = r /\ DOMAIN r = DOMAIN row \cup new
  BY DEF DeliverMessage, Change
<1>2. \A c \in DOMAIN r : r[c] \in Value
  BY ReadingConstants DEF ReadInv, ReadType, RowsOK, Value
<1>3. DOMAIN r \subseteq Copies /\ r \in [DOMAIN r -> Value]
  BY <1>1, <1>2 DEF ReadInv, ReadType, RowsOK
<1>4. QED
  BY <1>1, <1>3, ServerMoves DEF DeliverMessage, Change, RowsOK

\* What a write takes out of view is no longer steady.
LEMMA WriteInv ==
    ASSUME ReadInv, NEW x \in MailboxIds, NEW m \in Messages, NEW named \in MailboxIds \cup {None},
           PatchMessage(x, m, named) \/ DeleteMessage(x, m, named)
    PROVE  ReadInv'
<1>1. RowsOK
  BY DEF ReadInv, ReadType
<1>2. CASE PatchMessage(x, m, named)
  <2>1. PICK values \in Value :
          Change([c \in DOMAIN row |-> IF c \in OneCopy(x, m, named) THEN values ELSE row[c]])
    BY <1>2 DEF PatchMessage, Value
  <2>2. RowsOK'
    BY <1>1, <2>1 DEF Change, RowsOK
  <2>3. QED
    BY <2>1, <2>2, ServerMoves DEF Change
<1>3. CASE DeleteMessage(x, m, named)
  <2>1. Change([c \in DOMAIN row \ OneCopy(x, m, named) |-> row[c]])
    BY <1>3 DEF DeleteMessage
  <2>2. RowsOK'
    BY <1>1, <2>1 DEF Change, RowsOK
  <2>3. QED
    BY <2>1, <2>2, ServerMoves DEF Change
<1>4. QED
  BY <1>2, <1>3

\* A snooze that ends moves its copy from one view to another.
LEMMA WakeInv == ASSUME ReadInv, NEW c \in DOMAIN row, Wake(c) PROVE ReadInv'
<1>1. RowsOK
  BY DEF ReadInv, ReadType
<1>2. row' = [row EXCEPT ![c] = [row[c] EXCEPT !.snoozed = FALSE]]
  BY DEF Wake, Change
<1>3. [row[c] EXCEPT !.snoozed = FALSE] \in Value
  BY <1>1 DEF RowsOK, Value
<1>4. RowsOK'
  BY <1>1, <1>2, <1>3 DEF RowsOK
<1>5. QED
  BY <1>4, ServerMoves DEF Wake, Change

-----------------------------------------------------------------------------
\* Everything is cleared; the requests in the air are older than the new list.
LEMMA StartOverInv ==
    ASSUME ReadInv, NEW v \in Views, NEW n \in Nat, NEW sent, StartOver(v, n, sent),
           sent \subseteq flights, \A f \in sent : f.call < n,
           view' = v, UNCHANGED server, loadingMore' \in BOOLEAN,
           loadingMore' <=> (\E f \in sent : f.from # None)
    PROVE  ReadInv'
<1> DEFINE ask == Ask(n, v, None)
<1>1. ask \in Flight /\ ask.call = n /\ ask.view = v /\ ask.from = None /\ ask.page = None
  BY DEF Ask, Flight
<1>2. /\ call' = n /\ items' = <<>> /\ cursor' = None /\ error' = FALSE /\ loading' = TRUE
      /\ flights' = sent \cup {ask} /\ steady' = {}
  BY DEF StartOver
<1> HIDE DEF ask
<1>3. sent \subseteq Flight
  BY DEF ReadInv, ReadType
<1>4. ReadType'
  <2>1. RowsOK'
    BY DEF ReadInv, ReadType, RowsOK, server
  <2>2. flights' \subseteq Flight
    BY <1>1, <1>2, <1>3
  <2>3. items' \in Seq(Entry)
    BY <1>2
  <2>4. cursor' \in Copies \cup {None}
    BY <1>2
  <2>5. error' \in BOOLEAN /\ loading' \in BOOLEAN
    BY <1>2, Zenon
  <2>6. QED
    BY <1>2, <2>1, <2>2, <2>3, <2>4, <2>5 DEF ReadType
<1>5. SpinnersAreTrue'
  <2>1. loading' <=> (\E f \in flights' : f.from = None /\ f.call = call')
    BY <1>1, <1>2
  <2>2. loadingMore' <=> (\E f \in flights' : f.from # None)
    BY <1>1, <1>2
  <2>3. \A f, g \in flights' : f.from # None /\ g.from # None => f = g
    BY <1>1, <1>2 DEF ReadInv, SpinnersAreTrue
  <2>4. QED
    BY <2>1, <2>2, <2>3 DEF SpinnersAreTrue
<1>6. FlightsOK'
  <2>1. \A f \in sent : f.call \in Nat
    BY <1>3 DEF Flight
  <2>2. QED
    BY <1>1, <1>2, <2>1 DEF ReadInv, FlightsOK
<1>7. ListOK' /\ SteadyOK'
  BY <1>1, <1>2 DEF ListOK, SteadyOK, SortedRows, Ahead
<1>8. QED
  BY <1>4, <1>5, <1>6, <1>7 DEF ReadInv

\* A new list begins with one request and nothing steady.
LEMMA MountInv == ASSUME ReadInv, NEW v \in Views, Mount(v) PROVE ReadInv'
<1>1. StartOver(v, 1, {}) /\ view' = v /\ loadingMore' = FALSE /\ UNCHANGED server
  BY DEF Mount
<1>2. 1 \in Nat /\ {} \subseteq flights /\ (\A f \in {} : f.call < 1)
  OBVIOUS
<1>3. loadingMore' \in BOOLEAN /\ (loadingMore' <=> (\E f \in {} : f.from # None))
  BY <1>1
<1>4. QED
  BY <1>1, <1>2, <1>3, StartOverInv

\* Switch and Reload: another first page is asked for, and nothing is withdrawn.
LEMMA AgainInv ==
    ASSUME ReadInv, NEW v \in Views, StartOver(v, call + 1, flights), view' = v, UNCHANGED server,
           loadingMore' = loadingMore
    PROVE  ReadInv'
<1>1. call + 1 \in Nat
  BY DEF ReadInv, ReadType
<1>2. \A f \in flights : f.call < call + 1
  BY DEF ReadInv, ReadType, FlightsOK, Flight
<1>3. loadingMore \in BOOLEAN /\ (loadingMore <=> \E f \in flights : f.from # None)
  BY DEF ReadInv, ReadType, SpinnersAreTrue
<1>4. QED
  BY <1>1, <1>2, <1>3, StartOverInv

\* A further page is asked for behind the last row, and only one.
LEMMA LoadMoreInv == ASSUME ReadInv, LoadMore PROVE ReadInv'
<1> DEFINE ask == Ask(call, view, cursor)
<1>1. cursor \in Copies /\ cursor # None /\ ~loading /\ items # <<>> /\ ~loadingMore
  BY DEF ReadInv, ReadType, LoadMore
<1>2. /\ ask \in Flight /\ ask.call = call /\ ask.view = view /\ ask.from = cursor
      /\ ask.page = None
  BY <1>1 DEF ReadInv, ReadType, Ask, Flight
<1>3. /\ loadingMore' = TRUE /\ flights' = flights \cup {ask}
      /\ UNCHANGED <<server, view, call, items, cursor, loading, error, steady>>
  BY DEF LoadMore
<1> HIDE DEF ask
<1>4. ReadType'
  BY <1>2, <1>3 DEF ReadInv, ReadType, RowsOK, server
<1>5. SpinnersAreTrue'
  BY <1>1, <1>2, <1>3 DEF ReadInv, SpinnersAreTrue
<1>6. FlightsOK'
  BY <1>1, <1>2, <1>3 DEF ReadInv, ReadType, FlightsOK
<1>7. ListOK' /\ SteadyOK'
  BY <1>2, <1>3 DEF ReadInv, ListOK, SteadyOK, server
<1>8. QED
  BY <1>4, <1>5, <1>6, <1>7 DEF ReadInv

-----------------------------------------------------------------------------
\* At most one request belongs to the list that is shown.
LEMMA OneLatest ==
    ASSUME ReadInv, NEW f \in flights, NEW g \in flights, f.call = call, g.call = call
    PROVE  f = g
<1>1. CASE loading
  BY <1>1 DEF ReadInv, FlightsOK
<1>2. CASE ~loading
  BY <1>2 DEF ReadInv, FlightsOK, SpinnersAreTrue
<1>3. QED
  BY <1>1, <1>2

\* A page that is read holds the newest rows behind its cursor.
LEMMA AnswerInv == ASSUME ReadInv, NEW f \in flights, AnswerRequest(f) PROVE ReadInv'
<1>1. PICK p \in Pages(f.view, f.from) : flights' = (flights \ {f}) \cup {[f EXCEPT !.page = p]}
  BY DEF AnswerRequest
<1> DEFINE g == [f EXCEPT !.page = p]
<1>2. /\ UNCHANGED <<server, screen>>
      /\ steady' = IF f.from = None /\ f.call = call THEN InView(row, view) ELSE steady
  BY DEF AnswerRequest
<1>3. f \in Flight /\ RowsOK
  BY DEF ReadInv, ReadType
<1>4. f.view \in Views /\ f.from \in Copies \cup {None}
  BY <1>3 DEF Flight
<1>5. /\ p \in PageType /\ PageOK(p, f.view, f.from)
      /\ \A c \in InView(row, f.view) :
            (f.from = None \/ Before(c, f.from)) => Ahead(c, p.rows, p.next)
  BY <1>1, <1>3, <1>4, PageFacts
<1>6. /\ g \in Flight /\ g.call = f.call /\ g.view = f.view /\ g.from = f.from /\ g.page = p
  BY <1>3, <1>5 DEF Flight
<1>7. flights' = (flights \ {f}) \cup {g}
  BY <1>1
<1> HIDE DEF g
<1>8. ReadType'
  BY <1>2, <1>6, <1>7 DEF ReadInv, ReadType, RowsOK, server, screen
<1>9. SpinnersAreTrue'
  BY <1>2, <1>6, <1>7 DEF ReadInv, SpinnersAreTrue, screen
<1>10. FlightsOK'
  BY <1>2, <1>5, <1>6, <1>7 DEF ReadInv, FlightsOK, screen
<1>11. ListOK'
  BY <1>2 DEF ReadInv, ListOK, screen
<1>12. CASE f.call # call
  <2>1. SteadyOK'
    BY <1>2, <1>6, <1>7, <1>12 DEF ReadInv, SteadyOK, server, screen
  <2>2. QED
    BY <1>8, <1>9, <1>10, <1>11, <2>1 DEF ReadInv
<1>13. CASE f.call = call
  <2>1. \A h \in flights' : h.call = call => h = g
    BY <1>7, <1>13, OneLatest
  <2>2. f.view = view
    BY <1>13 DEF ReadInv, FlightsOK
  <2>3. steady' \subseteq InView(row, view)
    BY <1>2 DEF ReadInv, SteadyOK
  <2>4. CASE f.from = None
    <3>1. loading
      BY <1>13, <2>4 DEF ReadInv, SpinnersAreTrue
    <3>2. \A c \in steady' : Ahead(c, p.rows, p.next)
      BY <1>5, <2>2, <2>3, <2>4
    <3>3. SteadyOK'
      BY <1>2, <1>6, <2>1, <2>3, <3>1, <3>2 DEF SteadyOK, server, screen
    <3>4. QED
      BY <1>8, <1>9, <1>10, <1>11, <3>3 DEF ReadInv
  <2>5. CASE f.from # None
    <3>1. ~loading /\ f.from = cursor /\ items # <<>> /\ steady' = steady
      BY <1>2, <1>13, <2>5 DEF ReadInv, FlightsOK
    <3>2. \A c \in steady : Ahead(c, items, cursor)
      BY <3>1 DEF ReadInv, SteadyOK
    <3>3. \A c \in steady : (\E i \in DOMAIN items : items[i].copy = c) \/ Ahead(c, p.rows, p.next)
      BY <1>5, <2>2, <2>3, <3>1, <3>2 DEF Ahead
    <3>4. SteadyOK'
      BY <1>2, <1>6, <2>1, <2>3, <3>1, <3>2, <3>3 DEF SteadyOK, server, screen
    <3>5. QED
      BY <1>8, <1>9, <1>10, <1>11, <3>4 DEF ReadInv
  <2>6. QED
    BY <2>4, <2>5
<1>14. QED
  BY <1>12, <1>13

-----------------------------------------------------------------------------
\* A request ends, however: the spinners and the other requests.
LEMMA SettleFacts ==
    ASSUME ReadInv, NEW f \in flights, Settle(f)
    PROVE  /\ SpinnersAreTrue'
           /\ loading' \in BOOLEAN /\ loadingMore' \in BOOLEAN /\ flights' \subseteq flights
           /\ f \notin flights'
           /\ UNCHANGED <<row, gone, changes, view, call, steady>>
           /\ f.from # None \/ f.call # call => loading' = loading
           /\ f.call = call => loading' = FALSE
<1>1. /\ loading' = IF f.from = None /\ f.call = call THEN FALSE ELSE loading
      /\ loadingMore' = IF f.from = None THEN loadingMore ELSE FALSE
      /\ flights' = flights \ {f}
      /\ UNCHANGED <<row, gone, changes, view, call, steady>>
  BY DEF Settle, IsLatest, MoreEnded, server
<1>2. loading \in BOOLEAN /\ loadingMore \in BOOLEAN
  BY DEF ReadInv, ReadType
<1>3. loading' \in BOOLEAN /\ loadingMore' \in BOOLEAN
  BY <1>1, <1>2
<1>4. loading' <=> (\E g \in flights' : g.from = None /\ g.call = call')
  BY <1>1, <1>2 DEF ReadInv, SpinnersAreTrue, FlightsOK
<1>5. loadingMore' <=> (\E g \in flights' : g.from # None)
  BY <1>1, <1>2 DEF ReadInv, SpinnersAreTrue
<1>6. \A g, h \in flights' : g.from # None /\ h.from # None => g = h
  BY <1>1 DEF ReadInv, SpinnersAreTrue
<1>7. f.call = call /\ f.from # None => loading = FALSE
  BY <1>2 DEF ReadInv, FlightsOK
<1>8. QED
  BY <1>1, <1>3, <1>4, <1>5, <1>6, <1>7 DEF SpinnersAreTrue

\* An answer or a failure that is not for the list that is shown changes nothing of it.
LEMMA StaleInv ==
    ASSUME ReadInv, NEW f \in flights, Settle(f), f.call # call, UNCHANGED <<items, cursor, error>>
    PROVE  ReadInv'
<1>1. /\ SpinnersAreTrue' /\ loading' = loading /\ loadingMore' \in BOOLEAN
      /\ flights' \subseteq flights /\ UNCHANGED <<row, gone, changes, view, call, steady>>
  BY SettleFacts
<1>2. ReadType'
  BY <1>1 DEF ReadInv, ReadType, RowsOK
<1>3. FlightsOK' /\ ListOK' /\ SteadyOK'
  BY <1>1 DEF ReadInv, FlightsOK, ListOK, SteadyOK
<1>4. QED
  BY <1>1, <1>2, <1>3 DEF ReadInv

\* What a list consists of when a page is appended.
LEMMA Concatenation ==
    ASSUME NEW s \in Seq(Entry), NEW t \in Seq(Entry)
    PROVE  /\ s \o t \in Seq(Entry) /\ Len(s) \in Nat /\ Len(t) \in Nat
           /\ DOMAIN (s \o t) = 1..(Len(s) + Len(t)) /\ DOMAIN s = 1..Len(s) /\ DOMAIN t = 1..Len(t)
           /\ \A i \in DOMAIN s : i \in DOMAIN (s \o t) /\ (s \o t)[i] = s[i]
           /\ \A i \in DOMAIN t : Len(s) + i \in DOMAIN (s \o t) /\ (s \o t)[Len(s) + i] = t[i]
           /\ \A k \in DOMAIN (s \o t) : k \notin DOMAIN s =>
                k > Len(s) /\ k - Len(s) \in DOMAIN t /\ (s \o t)[k] = t[k - Len(s)]
<1> DEFINE u == s \o t
<1>1. Len(s) \in Nat /\ Len(t) \in Nat /\ DOMAIN s = 1..Len(s) /\ DOMAIN t = 1..Len(t)
  OBVIOUS
<1>2. u \in Seq(Entry) /\ Len(u) = Len(s) + Len(t) /\ DOMAIN u = 1..(Len(s) + Len(t))
  OBVIOUS
<1>3. \A k \in 1..(Len(s) + Len(t)) : u[k] = IF k <= Len(s) THEN s[k] ELSE t[k - Len(s)]
  OBVIOUS
<1> HIDE DEF u
<1>4. \A i \in DOMAIN s : i \in DOMAIN u /\ u[i] = s[i]
  BY <1>1, <1>2, <1>3
<1>5. \A i \in DOMAIN t : Len(s) + i \in DOMAIN u /\ u[Len(s) + i] = t[i]
  <2> SUFFICES ASSUME NEW i \in DOMAIN t
      PROVE  Len(s) + i \in DOMAIN u /\ u[Len(s) + i] = t[i]
    OBVIOUS
  <2>1. Len(s) + i \in 1..(Len(s) + Len(t)) /\ ~(Len(s) + i <= Len(s)) /\ (Len(s) + i) - Len(s) = i
    BY <1>1
  <2>2. QED
    BY <1>2, <1>3, <2>1
<1>6. \A k \in DOMAIN u : k \notin DOMAIN s =>
        k > Len(s) /\ k - Len(s) \in DOMAIN t /\ u[k] = t[k - Len(s)]
  <2> SUFFICES ASSUME NEW k \in DOMAIN u, k \notin DOMAIN s
      PROVE  k > Len(s) /\ k - Len(s) \in DOMAIN t /\ u[k] = t[k - Len(s)]
    OBVIOUS
  <2>1. k \in 1..(Len(s) + Len(t)) /\ ~(k <= Len(s))
    BY <1>1, <1>2
  <2>2. k - Len(s) \in 1..Len(t)
    BY <1>1, <2>1
  <2>3. QED
    BY <1>1, <1>3, <2>1, <2>2
<1>7. QED
  BY <1>1, <1>2, <1>4, <1>5, <1>6 DEF u

\* The rows of a list are of copies.
LEMMA EntryCopies == ASSUME NEW s \in Seq(Entry) PROVE \A i \in DOMAIN s : s[i].copy \in Copies
<1>1. \A i \in DOMAIN s : s[i] \in Entry
  OBVIOUS
<1>2. QED
  BY <1>1 DEF Entry

\* The page of the only request that belongs to the list continues it.
LEMMA AppendPage ==
    ASSUME ReadInv, NEW f \in flights, f.call = call, f.page # None,
           NEW new, new = (IF f.from = None THEN <<>> ELSE items) \o f.page.rows
    PROVE  /\ new \in Seq(Entry) /\ SortedRows(new)
           /\ \A i \in DOMAIN new : Shows(new[i], view)
           /\ f.page.next # None => \A i \in DOMAIN new : UpTo(new[i], f.page.next)
           /\ \A c \in steady : Ahead(c, new, f.page.next)
           /\ f.page.next \in Copies \cup {None}
<1> DEFINE old == IF f.from = None THEN <<>> ELSE items
           r   == f.page.rows
           next == f.page.next
<1>1. f.page \in PageType /\ f.from \in Copies \cup {None} /\ f.view = view
  BY DEF ReadInv, ReadType, FlightsOK, Flight
<1>2. r \in Seq(Entry) /\ next \in Copies \cup {None} /\ PageOK(f.page, view, f.from)
  BY <1>1 DEF ReadInv, FlightsOK, PageType
<1>3. items \in Seq(Entry) /\ SortedRows(items) /\ \A i \in DOMAIN items : Shows(items[i], view)
  BY DEF ReadInv, ReadType, ListOK
<1>4. f.from # None => f.from = cursor /\ \A i \in DOMAIN items : UpTo(items[i], f.from)
  BY DEF ReadInv, FlightsOK, ListOK
<1>5. f.from = None => items = <<>>
  BY DEF ReadInv, FlightsOK, SpinnersAreTrue
<1>6. old \in Seq(Entry) /\ old = items
  BY <1>3, <1>5
<1> HIDE DEF old
<1>7. \A i \in DOMAIN r : r[i].copy \in Copies
  BY <1>2, EntryCopies
<1>8. \A i \in DOMAIN items : items[i].copy \in Copies
  BY <1>3, EntryCopies
<1>9. /\ new \in Seq(Entry) /\ Len(items) \in Nat /\ Len(r) \in Nat
      /\ DOMAIN new = 1..(Len(items) + Len(r))
      /\ DOMAIN items = 1..Len(items) /\ DOMAIN r = 1..Len(r)
      /\ \A i \in DOMAIN items : i \in DOMAIN new /\ new[i] = items[i]
      /\ \A i \in DOMAIN r : Len(items) + i \in DOMAIN new /\ new[Len(items) + i] = r[i]
      /\ \A k \in DOMAIN new : k \notin DOMAIN items =>
            k > Len(items) /\ k - Len(items) \in DOMAIN r /\ new[k] = r[k - Len(items)]
  <2>1. new = items \o r
    BY <1>6 DEF old
  <2>2. r \in Seq(Entry) /\ items \in Seq(Entry)
    BY <1>2, <1>3
  <2> HIDE DEF r
  <2>3. items \o r \in Seq(Entry) /\ Len(items) \in Nat /\ Len(r) \in Nat
    BY <2>2, Concatenation
  <2>4. /\ DOMAIN (items \o r) = 1..(Len(items) + Len(r))
        /\ DOMAIN items = 1..Len(items) /\ DOMAIN r = 1..Len(r)
    BY <2>2, Concatenation
  <2>5. \A i \in DOMAIN items : i \in DOMAIN (items \o r) /\ (items \o r)[i] = items[i]
    BY <2>2, Concatenation
  <2>6. \A i \in DOMAIN r :
          Len(items) + i \in DOMAIN (items \o r) /\ (items \o r)[Len(items) + i] = r[i]
    BY <2>2, Concatenation
  <2>7. \A k \in DOMAIN (items \o r) : k \notin DOMAIN items =>
          k > Len(items) /\ k - Len(items) \in DOMAIN r /\ (items \o r)[k] = r[k - Len(items)]
    BY <2>2, Concatenation
  <2>8. QED
    BY <2>1, <2>3, <2>4, <2>5, <2>6, <2>7
<1>10. \A k \in DOMAIN new : (k \in DOMAIN items /\ new[k] = items[k])
        \/ (k > Len(items) /\ k - Len(items) \in DOMAIN r /\ new[k] = r[k - Len(items)])
  BY <1>9
<1>11. \A i \in DOMAIN items, j \in DOMAIN r : Before(r[j].copy, items[i].copy)
  <2> SUFFICES ASSUME NEW i \in DOMAIN items, NEW j \in DOMAIN r
      PROVE  Before(r[j].copy, items[i].copy)
    OBVIOUS
  <2>1. f.from # None /\ f.from \in Copies
    BY <1>1, <1>5
  <2>2. Before(r[j].copy, f.from) /\ UpTo(items[i], f.from)
    BY <1>2, <1>4, <2>1 DEF PageOK
  <2>3. QED
    BY <1>7, <1>8, <2>1, <2>2, BeforeTransitive DEF UpTo
<1>12. SortedRows(new)
  <2> SUFFICES ASSUME NEW i \in DOMAIN new, NEW j \in DOMAIN new, i < j
      PROVE  Before(new[j].copy, new[i].copy)
    BY DEF SortedRows
  <2>1. CASE j \in DOMAIN items
    <3>1. i \in DOMAIN items
      BY <1>9, <2>1
    <3>2. QED
      BY <1>3, <1>9, <2>1, <3>1 DEF SortedRows
  <2>2. CASE j \notin DOMAIN items
    <3> DEFINE n == j - Len(items)
    <3>1. n \in DOMAIN r /\ new[j] = r[n]
      BY <1>10, <2>2
    <3>2. CASE i \in DOMAIN items
      BY <1>9, <1>11, <3>1, <3>2
    <3>3. CASE i \notin DOMAIN items
      <4> DEFINE m == i - Len(items)
      <4>1. m \in DOMAIN r /\ new[i] = r[m]
        BY <1>10, <3>3
      <4>2. m < n
        BY <1>9
      <4>3. QED
        BY <1>2, <3>1, <4>1, <4>2 DEF PageOK, SortedRows
    <3>4. QED
      BY <3>2, <3>3
  <2>3. QED
    BY <2>1, <2>2
<1>13. \A k \in DOMAIN new : Shows(new[k], view)
  BY <1>2, <1>3, <1>10 DEF PageOK
<1>14. ASSUME next # None, NEW k \in DOMAIN new
       PROVE  UpTo(new[k], next)
  <2>1. CASE k \in DOMAIN items
    <3>1. f.from # None /\ f.from \in Copies /\ next \in Copies
      BY <1>1, <1>2, <1>5, <1>14, <2>1
    <3>2. UpTo(items[k], f.from) /\ Before(next, f.from)
      BY <1>2, <1>4, <1>14, <2>1, <3>1 DEF PageOK
    <3>3. Before(next, items[k].copy)
      BY <1>8, <2>1, <3>1, <3>2, BeforeTransitive DEF UpTo
    <3>4. QED
      BY <1>9, <2>1, <3>3 DEF UpTo
  <2>2. CASE k \notin DOMAIN items
    BY <1>2, <1>10, <1>14, <2>2 DEF PageOK
  <2>3. QED
    BY <2>1, <2>2
<1>15. \A c \in steady : Ahead(c, new, next)
  <2> SUFFICES ASSUME NEW c \in steady PROVE Ahead(c, new, next)
    OBVIOUS
  <2>1. (\E i \in DOMAIN items : items[i].copy = c) \/ Ahead(c, r, next)
    BY DEF ReadInv, SteadyOK
  <2>2. CASE \E i \in DOMAIN items : items[i].copy = c
    <3>1. PICK i \in DOMAIN items : items[i].copy = c
      BY <2>2
    <3>2. i \in DOMAIN new /\ new[i].copy = c
      BY <1>9, <3>1
    <3>3. QED
      BY <3>2 DEF Ahead
  <2>3. CASE \E i \in DOMAIN r : r[i].copy = c
    <3>1. PICK i \in DOMAIN r : r[i].copy = c
      BY <2>3
    <3>2. Len(items) + i \in DOMAIN new /\ new[Len(items) + i].copy = c
      BY <1>9, <3>1
    <3>3. QED
      BY <3>2 DEF Ahead
  <2>4. CASE next # None /\ Before(c, next)
    BY <2>4 DEF Ahead
  <2>5. QED
    BY <2>1, <2>2, <2>3, <2>4 DEF Ahead
<1>16. QED
  BY <1>2, <1>9, <1>12, <1>13, <1>14, <1>15

\* The page that is appended continues the list it was asked for.
LEMMA ReceiveInv == ASSUME ReadInv, NEW f \in flights, Receive(f) PROVE ReadInv'
<1>1. Settle(f) /\ UNCHANGED error /\ f.page # None
  BY DEF Receive
<1>2. CASE f.call # call
  BY <1>1, <1>2, StaleInv DEF Receive, IsLatest
<1>3. CASE f.call = call
  <2>1. items' = (IF f.from = None THEN <<>> ELSE items) \o f.page.rows /\ cursor' = f.page.next
    BY <1>3 DEF Receive, IsLatest
  <2>2. /\ SpinnersAreTrue' /\ loading' \in BOOLEAN /\ loadingMore' \in BOOLEAN
        /\ flights' \subseteq flights /\ f \notin flights' /\ loading' = FALSE
        /\ UNCHANGED <<row, gone, changes, view, call, steady>>
    BY <1>1, <1>3, SettleFacts
  <2>3. /\ items' \in Seq(Entry) /\ SortedRows(items')
        /\ \A i \in DOMAIN items' : Shows(items'[i], view)
        /\ cursor' # None => \A i \in DOMAIN items' : UpTo(items'[i], cursor')
        /\ \A c \in steady : Ahead(c, items', cursor')
        /\ cursor' \in Copies \cup {None}
    BY <1>1, <1>3, <2>1, AppendPage
  <2>4. \A g \in flights' : g.call # call
    BY <1>3, <2>2, OneLatest
  <2>5. ReadType'
    BY <1>1, <2>2, <2>3 DEF ReadInv, ReadType, RowsOK
  <2>6. FlightsOK'
    BY <2>2, <2>4 DEF ReadInv, FlightsOK
  <2>7. ListOK'
    BY <2>2, <2>3 DEF ListOK
  <2>8. SteadyOK'
    BY <2>2, <2>3, <2>4 DEF ReadInv, SteadyOK
  <2>9. QED
    BY <2>2, <2>5, <2>6, <2>7, <2>8 DEF ReadInv
<1>4. QED
  BY <1>2, <1>3

\* A request that fails ends its spinner and leaves the rows.
LEMMA FailInv == ASSUME ReadInv, NEW f \in flights, FailRequest(f) PROVE ReadInv'
<1>1. Settle(f) /\ UNCHANGED <<items, cursor>> /\ error' = (error \/ f.call = call)
  BY DEF FailRequest, IsLatest
<1>2. error \in BOOLEAN
  BY DEF ReadInv, ReadType
<1>3. CASE f.call # call
  <2>1. error' = error
    BY <1>1, <1>2, <1>3
  <2>2. QED
    BY <1>1, <1>3, <2>1, StaleInv
<1>4. CASE f.call = call
  <2>1. /\ SpinnersAreTrue' /\ loading' \in BOOLEAN /\ loadingMore' \in BOOLEAN
        /\ flights' \subseteq flights /\ f \notin flights' /\ loading' = FALSE
        /\ UNCHANGED <<row, gone, changes, view, call, steady>>
    BY <1>1, <1>4, SettleFacts
  <2>2. error' = TRUE
    BY <1>1, <1>2, <1>4
  <2>3. \A g \in flights' : g.call # call
    BY <1>4, <2>1, OneLatest
  <2>4. ReadType'
    BY <1>1, <1>2, <2>1, <2>2 DEF ReadInv, ReadType, RowsOK
  <2>5. FlightsOK' /\ ListOK'
    BY <1>1, <2>1, <2>3 DEF ReadInv, FlightsOK, ListOK
  <2>6. items # <<>> => \A c \in steady : Ahead(c, items, cursor)
    BY <1>4 DEF ReadInv, SteadyOK, FlightsOK, SpinnersAreTrue
  <2>7. SteadyOK'
    BY <1>1, <2>1, <2>2, <2>3, <2>6 DEF ReadInv, SteadyOK
  <2>8. QED
    BY <2>1, <2>4, <2>5, <2>7 DEF ReadInv
<1>5. QED
  BY <1>3, <1>4

-----------------------------------------------------------------------------
\* The first list of all has its request in the air.
LEMMA ReadInitInv == ASSUME ReadInit PROVE ReadInv
<1> DEFINE ask == Ask(1, view, None)
<1>1. /\ row = [c \in {} |-> None] /\ view = [path |-> "inbox", arg |-> FALSE] /\ call = 1
      /\ items = <<>> /\ cursor = None /\ loading = TRUE /\ loadingMore = FALSE /\ error = FALSE
      /\ flights = {ask} /\ steady = {}
  BY DEF ReadInit
<1>2. view \in Views
  BY <1>1, ReadingConstants DEF Views
<1>3. /\ ask \in Flight /\ ask.call = 1 /\ ask.view = view /\ ask.from = None /\ ask.page = None
  BY <1>2 DEF Ask, Flight
<1> HIDE DEF ask
<1>4. loading \in BOOLEAN /\ loadingMore \in BOOLEAN /\ error \in BOOLEAN
  BY <1>1, Zenon
<1>5. ReadType
  <2>1. RowsOK
    BY <1>1 DEF RowsOK
  <2>2. items \in Seq(Entry)
    BY <1>1
  <2>3. call \in Nat /\ cursor \in Copies \cup {None} /\ flights \subseteq Flight
    BY <1>1, <1>3
  <2>4. QED
    BY <1>2, <1>4, <2>1, <2>2, <2>3 DEF ReadType
<1>6. SpinnersAreTrue /\ FlightsOK
  BY <1>1, <1>3 DEF SpinnersAreTrue, FlightsOK
<1>7. ListOK /\ SteadyOK
  BY <1>1, <1>3 DEF ListOK, SteadyOK, SortedRows, Ahead
<1>8. QED
  BY <1>5, <1>6, <1>7 DEF ReadInv

\* No step of server or client breaks the invariant.
LEMMA ReadStep == ReadInv /\ [ReadNext]_readVars => ReadInv'
<1> SUFFICES ASSUME ReadInv, [ReadNext]_readVars PROVE ReadInv'
  OBVIOUS
<1>1. ASSUME NEW m \in Messages, DeliverMessage(m) PROVE ReadInv'
  BY <1>1, DeliverInv
<1>2. CASE Write
  BY <1>2, WriteInv DEF Write
<1>3. ASSUME NEW c \in DOMAIN row, Wake(c) PROVE ReadInv'
  BY <1>3, WakeInv
<1>4. ASSUME NEW v \in Views, Mount(v) PROVE ReadInv'
  BY <1>4, MountInv
<1>5. ASSUME NEW v \in Views, Switch(v) PROVE ReadInv'
  BY <1>5, AgainInv DEF Switch, StillMore
<1>6. CASE Reload
  <2>1. view \in Views
    BY DEF ReadInv, ReadType
  <2>2. QED
    BY <1>6, <2>1, AgainInv DEF Reload, StillMore
<1>7. CASE LoadMore
  BY <1>7, LoadMoreInv
<1>8. ASSUME NEW f \in flights, AnswerRequest(f) PROVE ReadInv'
  BY <1>8, AnswerInv
<1>9. ASSUME NEW f \in flights, Receive(f) PROVE ReadInv'
  BY <1>9, ReceiveInv
<1>10. ASSUME NEW f \in flights, FailRequest(f) PROVE ReadInv'
  BY <1>10, FailInv
<1>11. CASE UNCHANGED readVars
  <2>1. UNCHANGED <<row, gone, changes, view, call, items, cursor, loading, loadingMore, error,
                    flights, steady>>
    BY <1>11 DEF readVars, server, screen
  <2>2. QED
    BY <2>1 DEF ReadInv, ReadType, RowsOK, SpinnersAreTrue, FlightsOK, ListOK, SteadyOK
<1>12. QED
  BY <1>1, <1>2, <1>3, <1>4, <1>5, <1>6, <1>7, <1>8, <1>9, <1>10, <1>11 DEF ReadNext

\* What is in the air continues the list that is shown, or is ignored: the inductive invariant.
THEOREM ReadInvariant == ReadSpec => []ReadInv
<1>1. ReadInit => ReadInv
  BY ReadInitInv
<1>2. QED
  BY <1>1, ReadStep, PTL DEF ReadSpec

\* However requests, failures and navigation interleave, a list is newest first and has no
\* copy twice.
THEOREM ListSorted == ReadSpec => []ListIsSorted
<1>1. ReadInv => ListIsSorted
  BY DEF ReadInv, ListOK, SortedRows, ListIsSorted
<1>2. QED
  BY <1>1, ReadInvariant, PTL

\* No row of another tenant, folder or query is ever on the screen.
THEOREM ListShows == ReadSpec => []ListShowsItsView
<1>1. ReadInv => ListShowsItsView
  BY DEF ReadInv, ListOK, Shows, ListShowsItsView
<1>2. QED
  BY <1>1, ReadInvariant, PTL

\* A list that says it is complete shows everything that was in view all along.
THEOREM NothingSkipped == ReadSpec => []NothingIsSkipped
<1>1. ReadInv => NothingIsSkipped
  BY DEF ReadInv, SteadyOK, Ahead, Shown, NothingIsSkipped
<1>2. QED
  BY <1>1, ReadInvariant, PTL

\* A spinner stands for a request that is in the air.
THEOREM SpinnersTrue == ReadSpec => []SpinnersAreTrue
<1>1. ReadInv => SpinnersAreTrue
  BY DEF ReadInv
<1>2. QED
  BY <1>1, ReadInvariant, PTL

-----------------------------------------------------------------------------
\* _one_copy finds one copy or none.
LEMMA OneCopyIsOne ==
    ASSUME RowsOK, NEW x \in MailboxIds, NEW m \in Messages, NEW named \in MailboxIds \cup {None},
           NEW c \in OneCopy(x, m, named), NEW d \in OneCopy(x, m, named)
    PROVE  c = d
<1>1. CASE named # None
  BY <1>1 DEF OneCopy
<1>2. CASE named = None
  <2>1. IsFiniteSet(Allowed(x, m))
    BY ReadingConstants, FS_Subset DEF Allowed, RowsOK
  <2>2. Cardinality(Allowed(x, m)) = 1 /\ c \in Allowed(x, m) /\ d \in Allowed(x, m)
    BY <1>2 DEF OneCopy
  <2>3. QED
    BY <2>1, <2>2, FS_Singleton
<1>3. QED
  BY <1>1, <1>2

\* No write of anybody changes two copies of a message.
THEOREM WritesAreSingle == ReadSpec => WritesTouchOneCopy
<1> DEFINE A == \A c, d \in DOMAIN row :
        (\A e \in {c, d} : e \notin DOMAIN row' \/ row'[e] # row[e]) => c = d
<1>1. ReadInv /\ [ReadNext]_readVars => [A]_readVars
  <2> SUFFICES ASSUME ReadInv, ReadNext PROVE A
    BY Zenon
  <2>1. RowsOK
    BY DEF ReadInv, ReadType
  <2>2. ASSUME NEW m \in Messages, DeliverMessage(m) PROVE A
    BY <2>2 DEF DeliverMessage, Change
  <2>3. ASSUME NEW x \in MailboxIds, NEW m \in Messages, NEW named \in MailboxIds \cup {None},
               PatchMessage(x, m, named) \/ DeleteMessage(x, m, named)
        PROVE  A
    <3>1. \A c \in DOMAIN row : c \notin OneCopy(x, m, named) =>
            c \in DOMAIN row' /\ row'[c] = row[c]
      BY <2>3 DEF PatchMessage, DeleteMessage, Change
    <3>2. QED
      BY <2>1, <3>1, OneCopyIsOne
  <2>4. ASSUME NEW c \in DOMAIN row, Wake(c) PROVE A
    BY <2>1, <2>4 DEF Wake, Change, RowsOK
  <2>5. CASE UNCHANGED server
    BY <2>5 DEF server
  <2>6. QED
    BY <2>2, <2>3, <2>4, <2>5
       DEF ReadNext, Write, Mount, Switch, Reload, LoadMore, AnswerRequest, Receive, FailRequest, Settle
<1>2. QED
  BY <1>1, ReadInvariant, PTL DEF ReadSpec, WritesTouchOneCopy
=============================================================================

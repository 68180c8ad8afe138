SPECIFICATION McSpec
CONSTANTS
    A = A
    B = B
    d1 = d1
    d2 = d2
    d3 = d3
    d4 = d4
    a = a
    b = b
    m1 = m1
    m2 = m2
    Senders = {s1}
    Receivers = {x, y}
    Valid = {x, y}
    MaxTransfers = 2
    Unset = Unset
    Workers = {w1, w2}
    Mails = {m1, m2}
    OwnerOf <- McOwnerOf
    Mailboxes <- McMailboxes
    Aliases <- McAliases
    CatchAlls <- McCatchAlls
    Envelopes <- McEnvelopes
    Hopeless = {m2}
    MaxFailures = 2
    Nobody = Nobody
    Copies <- McCopies
    ReceivedAt <- McAt
    Tenant <- McTenant
    Members <- McMembers
    Me = 1
    Folders = {"inbox", "archive"}
    Matches <- McMatches
    Limit = 1
    MaxCalls = 2
    MaxChanges = 1
    None = None
    SizeOf <- McSizes
    Layouts <- McLayouts
    Numbers = {0, 1, 2, 3, 4, 5, 6}
    MaxBreaks = 2
    Absent = Absent
INVARIANTS
    EventsNameTheirMail
    CopiesStayInTenant
    ThreadsStayInTenant
    RecipientsAreServed
    DeliveredIsFound
    ListIsSorted
    NothingIsSkipped
    ListShowsItsView
    SpinnersAreTrue
    ReplyIsTheRange
    DownloadIsTheFile
PROPERTIES
    WritesTouchOneCopy
    MailsEnd
CHECK_DEADLOCK FALSE

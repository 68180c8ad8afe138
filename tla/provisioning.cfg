SPECIFICATION FairSpec
CONSTANTS
    r1 = r1
    r2 = r2
    k1 = k1
    k2 = k2
    old = old
    new = new
    a = a
    b = b
    NoOne = NoOne
    Resellers = {r1, r2}
    Domains = {old, new}
    Locals = {a, b}
    Keys = {k1, k2}
    OrderRequests <- McOrders
    Handlers = {h1, h2}
    Legacy = {old}
    LegacyOwner <- McLegacyOwner
    LegacyMailboxes = {}
    LegacyAliases <- McLegacyAliases
    LegacyCatchAll = {old}
    MaxFaults = 1
INVARIANTS
    TypeOK
    OrdersAreWhole
    CacheIsNeverStale
    NoSilentGap
PROPERTIES
    EveryRequestEnds
    RestartHeals
CHECK_DEADLOCK FALSE

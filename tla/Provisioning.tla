---------------------------- MODULE Provisioning ----------------------------
(***************************************************************************)
(* How an address comes to receive mail.  Resellers order mailboxes        *)
(* (api/routers/orders.py) and have domains verified (routers/domains.py); *)
(* an operator may verify one by hand (scripts/verify_domain.py).  Rows    *)
(* are Postgres's; the addresses of verified domains are copied to two     *)
(* Redis sets (api/addresses.py), which are all the SMTP receiver looks    *)
(* at, and which every start of the API builds anew (api/main.py).         *)
(* Statements of one transaction interleave with everybody else's: an      *)
(* INSERT that meets an uncommitted row of the same key waits for it.      *)
(***************************************************************************)
EXTENDS Integers, Sequences, FiniteSets

CONSTANTS
    Resellers, Domains, Locals, Keys,   \* reseller ids, names, local parts, Idempotency-Keys
    OrderRequests,   \* bodies of POST /v1/orders: [reseller, key, domain, list]
    Handlers,        \* what runs at one time: requests to the API, verify_domain.py
    Legacy,          \* domains from before verification existed
    LegacyOwner,     \* who owns them
    LegacyMailboxes, LegacyAliases, LegacyCatchAll,   \* their rows, made by hand
    MaxFaults,       \* bound: crashes of the API and losses of Redis
    NoOne

Addresses == Domains \X Locals

ASSUME ProvisioningConstants ==
    /\ OrderRequests \subseteq [reseller : Resellers, key : Keys, domain : Domains, list : Seq(Locals)]
    /\ Legacy \subseteq Domains
    /\ LegacyOwner \in [Legacy -> Resellers]
    /\ LegacyMailboxes \subseteq Legacy \X Locals
    /\ LegacyAliases \subseteq Legacy \X Locals
    /\ LegacyCatchAll \subseteq Legacy
    /\ MaxFaults \in Nat
    /\ NoOne \notin Resellers \cup Keys \cup Domains

VARIABLES
    orders,          \* committed provision_order rows
    owner,           \* committed domain rows: name -> reseller_id
    mailboxes,       \* committed mailbox rows
    verified,        \* domain.verified
    validAddresses, catchAllDomains,    \* the two Redis sets
    api,             \* the API process: down, starting (read, swap, catch), up
    rebuild,         \* what refresh has read
    work,            \* the handlers
    lost,            \* history: publications that a fault or a swap has undone
    faults

tables == <<orders, owner, mailboxes, verified>>
redis  == <<validAddresses, catchAllDomains>>
vars   == <<tables, redis, api, rebuild, work, lost, faults>>

Idle == [pc |-> "idle", reseller |-> NoOne, key |-> NoOne, domain |-> NoOne,
         list |-> <<>>, n |-> 0, fresh |-> FALSE, rows |-> {}]

\* What a request's mailboxes are called in full, and those whose rows it has inserted.
Ordered(w)  == {<<w.domain, w.list[i]>> : i \in 1..Len(w.list)}
Inserted(w) == {<<w.domain, w.list[i]>> : i \in 1..w.n}

\* The addresses that exist, and those of them that may receive mail.
Rows        == mailboxes \cup LegacyAliases
Deliverable == {a \in Rows : a[1] \in verified}

\* The query behind every publication, for all domains or for one.
\* Mutant: the filter on Domain.verified forgotten.
AllRowsOf(ds)    == {a \in Rows : a[1] \in ds}
AddressQuery(ds) == {a \in Rows : a[1] \in ds /\ a[1] \in verified}

\* The receiver's answer to RCPT TO.
Accepts(a) == a \in validAddresses \/ a[1] \in catchAllDomains

Init ==
    /\ orders = {}
    /\ owner = [d \in Domains |-> IF d \in Legacy THEN LegacyOwner[d] ELSE NoOne]
    /\ mailboxes = LegacyMailboxes
    /\ verified = Legacy               \* the grandfathering migration
    /\ validAddresses = {} /\ catchAllDomains = {}
    /\ api = "down" /\ rebuild = {}
    /\ work = [h \in Handlers |-> Idle]
    /\ lost = LegacyMailboxes \cup LegacyAliases
    /\ faults = 0

Goto(h, pc)   == work' = [work EXCEPT ![h].pc = pc]
Finish(h)     == work' = [work EXCEPT ![h] = Idle]

-----------------------------------------------------------------------------
(* POST /v1/orders                                                         *)

\* The validators of OrderRequest: at least one mailbox, none of them twice.
ValidOrder(o) ==
    /\ o.list # <<>>
    /\ \A i, j \in DOMAIN o.list : o.list[i] = o.list[j] => i = j

ReceiveOrder(h) ==
    /\ api = "up" /\ work[h] = Idle
    /\ \E o \in OrderRequests :
        /\ ValidOrder(o)
        /\ work' = [work EXCEPT ![h] = [Idle EXCEPT !.pc = "find", !.reseller = o.reseller,
                        !.key = o.key, !.domain = o.domain, !.list = o.list]]
    /\ UNCHANGED <<tables, redis, api, rebuild, lost, faults>>

\* The committed order this reseller made under this key.
Existing(w) == {o \in orders : o.key = w.key /\ o.reseller = w.reseller}

\* A first answer is replayed; otherwise the order begins.
FindExistingOrder(h) ==
    /\ work[h].pc = "find"
    /\ \/ Existing(work[h]) # {} /\ Finish(h)
       \/ Existing(work[h]) = {} /\ Goto(h, "claim")
    /\ UNCHANGED <<tables, redis, api, rebuild, lost, faults>>

\* Uncommitted rows: what a handler's transaction has inserted so far.
HoldsKey(h, k)     == work[h].pc \in {"domain", "mailbox", "commit"} /\ work[h].key = k
HoldsDomain(h, d)  == work[h].fresh /\ work[h].domain = d
HoldsMailbox(h, a) == work[h].pc \in {"mailbox", "commit"} /\ a \in Inserted(work[h])

NextMailbox(w) == <<w.domain, w.list[w.n + 1]>>

\* The transactions h's next INSERT has to wait for.
WaitsFor(h) ==
    {g \in Handlers \ {h} :
        \/ work[h].pc = "claim"   /\ HoldsKey(g, work[h].key)
        \/ work[h].pc = "domain"  /\ HoldsDomain(g, work[h].domain)
        \/ work[h].pc = "mailbox" /\ HoldsMailbox(g, NextMailbox(work[h]))}

\* ON CONFLICT DO NOTHING on the key, which is unique across all resellers.
\* Mutant: a key found taken is tried again in place.
AfterConflictRetry == "find"
AfterConflict      == "again"
ClaimKey(h) ==
    /\ work[h].pc = "claim" /\ WaitsFor(h) = {}
    /\ Goto(h, IF \E o \in orders : o.key = work[h].key THEN AfterConflict ELSE "domain")
    /\ UNCHANGED <<tables, redis, api, rebuild, lost, faults>>

\* The holder has committed: its result if it is this reseller's, else 409.
FindAgain(h) ==
    /\ work[h].pc = "again"
    /\ Finish(h)
    /\ UNCHANGED <<tables, redis, api, rebuild, lost, faults>>

\* A domain is inserted, or reused if it is ours; 409 rolls everything back.
Reusable(d, r) == owner[d] = r
InsertDomain(h) ==
    LET w == work[h] IN
    /\ w.pc = "domain" /\ WaitsFor(h) = {}
    /\ \/ /\ owner[w.domain] = NoOne
          /\ work' = [work EXCEPT ![h].pc = "mailbox", ![h].fresh = TRUE]
       \/ Reusable(w.domain, w.reseller) /\ Goto(h, "mailbox")
       \/ owner[w.domain] # NoOne /\ ~Reusable(w.domain, w.reseller) /\ Finish(h)
    /\ UNCHANGED <<tables, redis, api, rebuild, lost, faults>>

\* One mailbox after the other, in the order of the request; one that exists is a 409.
\* Mutants: the loop runs once more; a mailbox that exists is skipped.
AfterOneMore(w)  == IF w.n = Len(w.list) THEN "commit" ELSE "mailbox"
AfterInsert(w)   == IF w.n + 1 = Len(w.list) THEN "commit" ELSE "mailbox"
SkipTaken(h)     == work' = [work EXCEPT ![h].n = @ + 1, ![h].pc = AfterInsert(work[h])]
TakenMailbox(h)  == Finish(h)
InsertMailbox(h) ==
    LET w == work[h] IN
    /\ w.pc = "mailbox" /\ WaitsFor(h) = {}
    /\ \/ NextMailbox(w) \in mailboxes /\ TakenMailbox(h)
       \/ /\ NextMailbox(w) \notin mailboxes
          /\ work' = [work EXCEPT ![h].n = @ + 1, ![h].pc = AfterInsert(w)]
    /\ UNCHANGED <<tables, redis, api, rebuild, lost, faults>>

CommitOrder(h) ==
    LET w == work[h] IN
    /\ w.pc = "commit"
    /\ orders' = orders \cup {[reseller |-> w.reseller, key |-> w.key,
                               domain |-> w.domain, list |-> w.list]}
    /\ owner' = [owner EXCEPT ![w.domain] = w.reseller]
    /\ mailboxes' = mailboxes \cup Inserted(w)
    /\ work' = [work EXCEPT ![h].pc = "reread", ![h].fresh = FALSE]
    /\ UNCHANGED <<verified, redis, api, rebuild, lost, faults>>

\* The flag is read after the commit; an unverified domain's addresses stay out of Redis.
\* Mutant: only what the loop's variable held at the end.
LastOnly(w)  == {<<w.domain, w.list[w.n]>>}
Published(w) == Ordered(w)
RereadVerified(h) ==
    LET w == work[h] IN
    /\ w.pc = "reread"
    /\ \/ /\ w.domain \in verified
          /\ work' = [work EXCEPT ![h].pc = "add", ![h].rows = Published(w)]
       \/ w.domain \notin verified /\ Finish(h)
    /\ UNCHANGED <<tables, redis, api, rebuild, lost, faults>>

\* Anything that fails before the commit leaves nothing behind.
RollBack(h) ==
    /\ work[h].pc \in {"find", "claim", "again", "domain", "mailbox", "commit", "owned", "dns", "flag"}
    /\ Finish(h)
    /\ UNCHANGED <<tables, redis, api, rebuild, lost, faults>>

\* Postgres's deadlock detector: two orders insert the same mailboxes in another order.
Deadlocked(h) ==
    \E S \in SUBSET Handlers : h \in S /\ \A g \in S : WaitsFor(g) \cap S # {}
AbortVictim(h) ==
    /\ Deadlocked(h)
    /\ Finish(h)
    /\ UNCHANGED <<tables, redis, api, rebuild, lost, faults>>

-----------------------------------------------------------------------------
(* POST /v1/domains/{id}/verify, and verify_domain.py                      *)

ReceiveVerify(h) ==
    /\ api = "up" /\ work[h] = Idle
    /\ \E r \in Resellers, d \in Domains :
        work' = [work EXCEPT ![h] = [Idle EXCEPT !.pc = "owned", !.reseller = r, !.domain = d]]
    /\ UNCHANGED <<tables, redis, api, rebuild, lost, faults>>

\* 404 unless it is ours.  A verified domain skips DNS, never the publication.
OwnedDomain(h) ==
    LET w == work[h] IN
    /\ w.pc = "owned"
    /\ \/ owner[w.domain] # w.reseller /\ Finish(h)
       \/ owner[w.domain] = w.reseller /\ w.domain \in verified /\ Goto(h, "rows")
       \/ owner[w.domain] = w.reseller /\ w.domain \notin verified /\ Goto(h, "dns")
    /\ UNCHANGED <<tables, redis, api, rebuild, lost, faults>>

\* No record yet, another record, no answer: 404, 409, 503.
LookupTxt(h) ==
    /\ work[h].pc = "dns"
    /\ Finish(h) \/ Goto(h, "flag")
    /\ UNCHANGED <<tables, redis, api, rebuild, lost, faults>>

\* The script asks nobody: it takes a domain that exists.
RunScript(h) ==
    /\ work[h] = Idle
    /\ \E d \in Domains :
        /\ owner[d] # NoOne
        /\ work' = [work EXCEPT ![h] = [Idle EXCEPT !.pc = "flag", !.domain = d]]
    /\ UNCHANGED <<tables, redis, api, rebuild, lost, faults>>

CommitVerified(h) ==
    /\ work[h].pc = "flag"
    /\ verified' = verified \cup {work[h].domain}
    /\ Goto(h, "rows")
    /\ UNCHANGED <<orders, owner, mailboxes, redis, api, rebuild, lost, faults>>

\* publish_domain: read the domain's addresses, add them, then its catch-all.
ReadRows(h) ==
    /\ work[h].pc = "rows"
    /\ work' = [work EXCEPT ![h].pc = "sadd", ![h].rows = AddressQuery({work[h].domain})]
    /\ UNCHANGED <<tables, redis, api, rebuild, lost, faults>>

Publish(h) ==
    LET w == work[h] IN
    /\ w.pc \in {"add", "sadd"}
    /\ validAddresses' = validAddresses \cup w.rows
    /\ lost' = lost \ w.rows
    /\ IF w.pc = "add" THEN Finish(h) ELSE Goto(h, "catch")
    /\ UNCHANGED <<tables, catchAllDomains, api, rebuild, faults>>

PublishCatchAll(h) ==
    LET d == work[h].domain IN
    /\ work[h].pc = "catch"
    /\ catchAllDomains' = catchAllDomains \cup ({d} \cap LegacyCatchAll \cap verified)
    /\ Finish(h)
    /\ UNCHANGED <<tables, validAddresses, api, rebuild, lost, faults>>

\* What a handler that has committed is still going to publish.
Owes(w) ==
    CASE w.pc = "reread" -> {a \in Ordered(w) : a[1] \in verified}
      [] w.pc = "rows" -> {a \in Deliverable : a[1] = w.domain}
      [] w.pc \in {"add", "sadd"} -> w.rows
      [] OTHER -> {}

\* Redis refuses a write, the process dies, the connection goes: the rows stay committed.
GiveUp(h) ==
    /\ work[h].pc \in {"reread", "rows", "add", "sadd", "catch"}
    /\ lost' = lost \cup (Owes(work[h]) \ validAddresses)
    /\ Finish(h)
    /\ UNCHANGED <<tables, redis, api, rebuild, faults>>

-----------------------------------------------------------------------------
(* The API process and Redis                                               *)

\* lifespan, then addresses.refresh: read everything, swap, then the catch-alls.
Start ==
    /\ api = "down" /\ api' = "read"
    /\ UNCHANGED <<tables, redis, rebuild, work, lost, faults>>
\* Mutant: a set that is there is kept.
KeepFilled == IF validAddresses = {} THEN AddressQuery(Domains) ELSE validAddresses
Rebuilt    == AddressQuery(Domains)
ReadAll ==
    /\ api = "read" /\ api' = "swap"
    /\ rebuild' = Rebuilt
    /\ UNCHANGED <<tables, redis, work, lost, faults>>
\* RENAME puts the set that was read in the place of the set that is there.
SwapSet ==
    /\ api = "swap" /\ api' = "catch"
    /\ validAddresses' = rebuild
    /\ lost' = (lost \cup validAddresses) \ rebuild
    /\ rebuild' = {}
    /\ UNCHANGED <<tables, catchAllDomains, work, faults>>
SwapCatchAll ==
    /\ api = "catch" /\ api' = "up"
    /\ catchAllDomains' = LegacyCatchAll \cap verified
    /\ UNCHANGED <<tables, validAddresses, rebuild, work, lost, faults>>

Fault == faults < MaxFaults /\ faults' = faults + 1

\* Every request dies with the process: rolled back, or committed and not published.
Request(h) == work[h].reseller # NoOne
Requests   == {h \in Handlers : Request(h)}
OwedBy(S)  == UNION {Owes(work[h]) : h \in S}
CrashApi ==
    /\ Fault /\ api # "down" /\ api' = "down"
    /\ rebuild' = {}
    /\ lost' = lost \cup (OwedBy(Requests) \ validAddresses)
    /\ work' = [h \in Handlers |-> IF Request(h) THEN Idle ELSE work[h]]
    /\ UNCHANGED <<tables, redis>>

\* Redis is kept in memory: after a restart or a failover it may be empty.
LoseRedis ==
    /\ Fault
    /\ validAddresses' = {} /\ catchAllDomains' = {}
    /\ lost' = lost \cup validAddresses
    /\ UNCHANGED <<tables, api, rebuild, work>>

-----------------------------------------------------------------------------
Step(h) ==
    \/ FindExistingOrder(h) \/ ClaimKey(h) \/ FindAgain(h) \/ InsertDomain(h) \/ InsertMailbox(h)
    \/ CommitOrder(h) \/ RereadVerified(h) \/ AbortVictim(h)
    \/ OwnedDomain(h) \/ LookupTxt(h) \/ CommitVerified(h) \/ ReadRows(h)
    \/ Publish(h) \/ PublishCatchAll(h)
Boot == Start \/ ReadAll \/ SwapSet \/ SwapCatchAll

Next ==
    \/ \E h \in Handlers :
        \/ ReceiveOrder(h) \/ ReceiveVerify(h) \/ RunScript(h)
        \/ Step(h) \/ RollBack(h) \/ GiveUp(h)
    \/ Boot \/ CrashApi \/ LoseRedis

Spec == Init /\ [][Next]_vars
\* A supervisor starts the API again.  Handlers run on; a statement that waits for a row
\* gets its turn in the end, however many others wait for it.
FairSpec == Spec /\ WF_vars(Boot) /\ \A h \in Handlers : SF_vars(Step(h))

-----------------------------------------------------------------------------
OrderRow   == [reseller : Resellers, key : Keys, domain : Domains, list : Seq(Locals)]
HandlerPcs == {"idle", "find", "claim", "again", "domain", "mailbox", "commit", "reread", "add",
               "owned", "dns", "flag", "rows", "sadd", "catch"}

\* Type invariant of the rows, the Redis sets and the handlers.
TypeOK ==
    /\ orders \subseteq OrderRow
    /\ owner \in [Domains -> Resellers \cup {NoOne}]
    /\ mailboxes \subseteq Addresses /\ verified \subseteq Domains
    /\ validAddresses \subseteq Addresses /\ catchAllDomains \subseteq Domains
    /\ api \in {"down", "read", "swap", "catch", "up"} /\ rebuild \subseteq Addresses
    /\ lost \subseteq Addresses /\ faults \in 0..MaxFaults
    /\ work \in [Handlers -> [pc : HandlerPcs, reseller : Resellers \cup {NoOne},
            key : Keys \cup {NoOne}, domain : Domains \cup {NoOne}, list : Seq(Locals),
            n : Nat, fresh : BOOLEAN, rows : SUBSET Addresses]]
    /\ \A h \in Handlers : work[h].pc = "mailbox" => work[h].n < Len(work[h].list)

\* All of them or none of them, and never twice (orders.py:80-89): every committed order
\* has all its mailboxes, under a domain of its reseller; no mailbox is of two orders.
OrdersAreWhole ==
    /\ \A o \in orders : owner[o.domain] = o.reseller /\ Ordered(o) \subseteq mailboxes \ LegacyMailboxes
    /\ \A a \in mailboxes \ LegacyMailboxes : \E o \in orders : a \in Ordered(o)
    /\ \A o, p \in orders : o = p \/ (o.key # p.key /\ Ordered(o) \cap Ordered(p) = {})

\* What the receiver accepts exists and is allowed to receive (addresses.py:28-30: a stale
\* address is mail accepted and then silently dropped), at every step of every handler.
CacheIsNeverStale ==
    validAddresses \subseteq Deliverable /\ catchAllDomains \subseteq LegacyCatchAll \cap verified

\* An address that may receive mail is in Redis, or a running handler is about to put it
\* there, or a fault or the swap of a starting API took it away: orders and verifications
\* that overlap leave no gap (orders.py:113-125).
NoSilentGap ==
    \A a \in Deliverable \ validAddresses :
        a \in lost \/ \E h \in Handlers : a \in Owes(work[h])

\* Every request is answered, whatever it waits for (orders.py:99-109).
EveryRequestEnds == \A h \in Handlers : (work[h] # Idle) ~> (work[h] = Idle)

\* A start of the API heals the cache (addresses.py:6-8): what was deliverable while the
\* API was down is accepted again, unless Redis fails once more.
RestartHeals ==
    \A a \in Addresses : (api = "down" /\ a \in Deliverable) ~> (a \in validAddresses)
=============================================================================

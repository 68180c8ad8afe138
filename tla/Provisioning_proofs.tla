------------------------ MODULE Provisioning_proofs ------------------------
(***************************************************************************)
(* Theorems about Provisioning, for any resellers, domains, orders and     *)
(* number of handlers at one time.                                         *)
(***************************************************************************)
EXTENDS Provisioning, TLAPS

JobType == [pc : HandlerPcs, reseller : Resellers \cup {NoOne}, key : Keys \cup {NoOne},
            domain : Domains \cup {NoOne}, list : Seq(Locals), n : Nat, fresh : BOOLEAN,
            rows : SUBSET Addresses]

OrderPcs   == {"find", "claim", "again", "domain", "mailbox", "commit", "reread", "add"}
VerifyPcs  == {"owned", "dns", "flag", "rows", "sadd", "catch"}
LockingPcs == {"domain", "mailbox", "commit"}
InsertPcs  == {"mailbox", "commit"}

\* What a handler knows of the tables at its program counter, and may rely on.
JobOK(w) ==
    /\ w.pc \in OrderPcs =>
        w.reseller \in Resellers /\ w.key \in Keys /\ w.domain \in Domains /\ w.list # <<>>
    /\ w.pc \in VerifyPcs => w.domain \in Domains
    /\ w.pc = "mailbox" => w.n < Len(w.list)
    /\ w.pc \in {"find", "claim", "again", "domain"} => w.n = 0
    /\ w.pc \in {"commit", "reread", "add"} => w.n = Len(w.list)
    /\ w.pc \notin InsertPcs => ~w.fresh
    /\ w.pc \in LockingPcs => \A o \in orders : o.key # w.key
    /\ w.pc \in InsertPcs =>
        /\ owner[w.domain] = IF w.fresh THEN NoOne ELSE w.reseller
        /\ Inserted(w) \cap mailboxes = {}
    /\ w.pc = "reread" => Ordered(w) \subseteq mailboxes
    /\ w.pc \in {"add", "sadd"} => w.rows \subseteq Deliverable

\* Two transactions never hold the same uncommitted row.
Apart(v, w) ==
    /\ v.pc \in LockingPcs /\ w.pc \in LockingPcs => v.key # w.key
    /\ v.fresh /\ w.fresh => v.domain # w.domain
    /\ v.pc \in InsertPcs /\ w.pc \in InsertPcs => Inserted(v) \cap Inserted(w) = {}

RowTypes ==
    /\ orders \subseteq OrderRow
    /\ owner \in [Domains -> Resellers \cup {NoOne}]
    /\ mailboxes \subseteq Addresses /\ verified \subseteq Domains
CacheTypes ==
    /\ validAddresses \subseteq Addresses /\ catchAllDomains \subseteq Domains
    /\ api \in {"down", "read", "swap", "catch", "up"} /\ rebuild \subseteq Addresses
    /\ lost \subseteq Addresses /\ faults \in 0..MaxFaults

\* The inductive invariant.
ProvisioningInv ==
    /\ RowTypes /\ CacheTypes /\ work \in [Handlers -> JobType]
    /\ LegacyMailboxes \subseteq mailboxes /\ OrdersAreWhole
    /\ \A h \in Handlers : JobOK(work[h])
    /\ \A g, h \in Handlers : g # h => Apart(work[g], work[h])
    /\ rebuild \subseteq Deliverable /\ CacheIsNeverStale
    /\ NoSilentGap

-----------------------------------------------------------------------------
\* What a handler owes, by where it stands.
LEMMA OwesCases ==
    ASSUME NEW w
    PROVE  /\ w.pc = "reread" => Owes(w) = {a \in Ordered(w) : a[1] \in verified}
           /\ w.pc = "rows" => Owes(w) = {a \in Deliverable : a[1] = w.domain}
           /\ w.pc \in {"add", "sadd"} => Owes(w) = w.rows
           /\ w.pc \notin {"reread", "rows", "add", "sadd"} => Owes(w) = {}
  BY DEF Owes

\* A handler without work is in order.
LEMMA IdleOK == Idle \in JobType /\ Idle.pc = "idle" /\ Idle.fresh = FALSE /\ JobOK(Idle)
<1>1. Idle.pc = "idle" /\ Idle.fresh = FALSE
  BY DEF Idle
<1>2. Idle \in JobType
  BY DEF Idle, JobType, HandlerPcs
<1>3. JobOK(Idle)
  BY <1>1 DEF JobOK, OrderPcs, VerifyPcs, InsertPcs, LockingPcs
<1>4. QED
  BY <1>1, <1>2, <1>3

\* One handler moves; the tables do not, and nothing that was owed is forgotten.
LEMMA JobMoves ==
    ASSUME ProvisioningInv, NEW h \in Handlers, NEW new \in JobType, JobOK(new),
           work' = [work EXCEPT ![h] = new],
           UNCHANGED <<orders, owner, mailboxes, verified, api, rebuild, faults>>,
           \A g \in Handlers \ {h} : Apart(work[g], new) /\ Apart(new, work[g]),
           validAddresses \subseteq validAddresses', validAddresses' \subseteq Deliverable,
           catchAllDomains' \subseteq LegacyCatchAll \cap verified,
           lost' \subseteq Addresses, lost \subseteq lost' \cup validAddresses',
           Owes(work[h]) \subseteq Owes(new) \cup lost' \cup validAddresses'
    PROVE  ProvisioningInv'
<1>1. work' \in [Handlers -> JobType] /\ \A g \in Handlers : work'[g] = IF g = h THEN new ELSE work[g]
  BY DEF ProvisioningInv
<1>2. \A w : JobOK(w) => JobOK(w)'
  BY DEF JobOK, Deliverable, Rows
<1>3. Deliverable' = Deliverable
  BY DEF Deliverable, Rows
<1>4. Deliverable \subseteq Addresses
  BY ProvisioningConstants DEF Deliverable, Rows, ProvisioningInv, RowTypes, Addresses
<1>5. RowTypes' /\ CacheTypes' /\ rebuild' \subseteq Deliverable'
  BY <1>3, <1>4 DEF ProvisioningInv, RowTypes, CacheTypes
<1>6. OrdersAreWhole' /\ LegacyMailboxes \subseteq mailboxes'
  BY DEF ProvisioningInv, OrdersAreWhole
<1>7. \A g \in Handlers : JobOK(work[g])'
  BY <1>1, <1>2 DEF ProvisioningInv
<1>8. \A g, k \in Handlers : g # k => Apart(work'[g], work'[k])
  BY <1>1 DEF ProvisioningInv
<1>9. CacheIsNeverStale'
  BY <1>3 DEF CacheIsNeverStale
<1>10. NoSilentGap'
  <2>1. \A w : Owes(w)' = Owes(w)
    BY <1>3 DEF Owes
  <2>2. \A g \in Handlers : Owes(work[g])' = IF g = h THEN Owes(new) ELSE Owes(work[g])
    BY <1>1, <2>1
  <2> SUFFICES ASSUME NEW a \in Deliverable, a \notin validAddresses', a \notin lost'
      PROVE  \E g \in Handlers : a \in Owes(work[g])'
    BY <1>3 DEF NoSilentGap
  <2>3. PICK g \in Handlers : a \in Owes(work[g])
    BY DEF ProvisioningInv, NoSilentGap
  <2>4. a \in Owes(work[g])'
    BY <2>2, <2>3
  <2>5. QED
    BY <2>4
<1>11. QED
  BY <1>1, <1>5, <1>6, <1>7, <1>8, <1>9, <1>10 DEF ProvisioningInv, Apart

\* A handler that owes nothing may end at any point.
LEMMA FinishInv ==
    ASSUME ProvisioningInv, NEW h \in Handlers, Finish(h),
           UNCHANGED <<orders, owner, mailboxes, verified, redis, api, rebuild, lost, faults>>,
           Owes(work[h]) \subseteq lost \cup validAddresses
    PROVE  ProvisioningInv'
<1>1. work' = [work EXCEPT ![h] = Idle]
  BY DEF Finish
<1>2. \A g \in Handlers : Apart(work[g], Idle) /\ Apart(Idle, work[g])
  BY IdleOK DEF Apart, LockingPcs, InsertPcs
<1>3. validAddresses \subseteq Deliverable /\ catchAllDomains \subseteq LegacyCatchAll \cap verified
      /\ lost \subseteq Addresses
  BY DEF ProvisioningInv, CacheIsNeverStale, CacheTypes
<1>4. QED
  BY <1>1, <1>2, <1>3, IdleOK, JobMoves DEF redis

\* A handler that owes nothing moves, and holds no more rows than it did.
LEMMA QuietMove ==
    ASSUME ProvisioningInv, NEW h \in Handlers, NEW new \in JobType, JobOK(new),
           work' = [work EXCEPT ![h] = new],
           UNCHANGED <<orders, owner, mailboxes, verified, redis, api, rebuild, lost, faults>>,
           \A g \in Handlers \ {h} : Apart(work[g], new) /\ Apart(new, work[g]),
           Owes(work[h]) \subseteq Owes(new)
    PROVE  ProvisioningInv'
<1>1. validAddresses \subseteq Deliverable /\ catchAllDomains \subseteq LegacyCatchAll \cap verified
      /\ lost \subseteq Addresses
  BY DEF ProvisioningInv, CacheIsNeverStale, CacheTypes
<1>2. QED
  BY <1>1, JobMoves DEF redis

\* A job that holds no uncommitted row is apart from every other.
LEMMA FreeIsApart ==
    ASSUME NEW v, NEW w, w.pc \notin LockingPcs, ~w.fresh
    PROVE  Apart(v, w) /\ Apart(w, v)
  BY DEF Apart, LockingPcs, InsertPcs

\* What Goto leaves alone.
LEMMA GotoNew ==
    ASSUME ProvisioningInv, NEW h \in Handlers, NEW p \in HandlerPcs, Goto(h, p)
    PROVE  \E new \in JobType :
            /\ work' = [work EXCEPT ![h] = new] /\ new.pc = p
            /\ new.reseller = work[h].reseller /\ new.key = work[h].key
            /\ new.domain = work[h].domain /\ new.list = work[h].list /\ new.n = work[h].n
            /\ new.fresh = work[h].fresh /\ new.rows = work[h].rows
            /\ Inserted(new) = Inserted(work[h]) /\ Ordered(new) = Ordered(work[h])
<1> DEFINE new == [work[h] EXCEPT !.pc = p]
<1>1. work[h] \in JobType
  BY DEF ProvisioningInv
<1>2. /\ new \in JobType /\ new.pc = p
      /\ new.reseller = work[h].reseller /\ new.key = work[h].key
      /\ new.domain = work[h].domain /\ new.list = work[h].list /\ new.n = work[h].n
      /\ new.fresh = work[h].fresh /\ new.rows = work[h].rows
  BY <1>1 DEF JobType
<1>3. work' = [work EXCEPT ![h] = new]
  BY DEF Goto
<1> HIDE DEF new
<1>4. Inserted(new) = Inserted(work[h]) /\ Ordered(new) = Ordered(work[h])
  BY <1>2 DEF Inserted, Ordered
<1>5. QED
  BY <1>2, <1>3, <1>4

\* Goto between two places where no row is held.
LEMMA FreeGoto ==
    ASSUME ProvisioningInv, NEW h \in Handlers, NEW p \in HandlerPcs, Goto(h, p),
           UNCHANGED <<orders, owner, mailboxes, verified, redis, api, rebuild, lost, faults>>,
           work[h].pc \notin InsertPcs, Owes(work[h]) = {},
           \/ work[h].pc = "find" /\ p = "claim"
           \/ work[h].pc = "claim" /\ p = "again"
           \/ work[h].pc \in VerifyPcs /\ p \in {"dns", "flag", "rows", "catch"}
    PROVE  ProvisioningInv'
<1>1. PICK new \in JobType :
            /\ work' = [work EXCEPT ![h] = new] /\ new.pc = p
            /\ new.reseller = work[h].reseller /\ new.key = work[h].key
            /\ new.domain = work[h].domain /\ new.list = work[h].list /\ new.n = work[h].n
            /\ new.fresh = work[h].fresh
  BY GotoNew
<1>2. JobOK(work[h])
  BY DEF ProvisioningInv
<1>3. p \notin LockingPcs /\ ~new.fresh
  BY <1>1, <1>2 DEF JobOK, LockingPcs
<1>4. JobOK(new)
  BY <1>1, <1>2, <1>3 DEF JobOK, OrderPcs, VerifyPcs, InsertPcs, LockingPcs
<1>5. \A g \in Handlers \ {h} : Apart(work[g], new) /\ Apart(new, work[g])
  BY <1>1, <1>3, FreeIsApart
<1>6. QED
  BY <1>1, <1>4, <1>5, QuietMove

-----------------------------------------------------------------------------
(* Requests arrive                                                         *)

\* A request that arrives holds no row and owes nothing.
LEMMA ArrivalInv ==
    ASSUME ProvisioningInv, NEW h \in Handlers, NEW new \in JobType, JobOK(new),
           work[h] = Idle, work' = [work EXCEPT ![h] = new],
           UNCHANGED <<tables, redis, api, rebuild, lost, faults>>,
           new.pc \in {"find", "owned", "flag"}
    PROVE  ProvisioningInv'
<1>1. ~new.fresh /\ new.pc \notin LockingPcs
  BY DEF JobOK, InsertPcs, LockingPcs
<1>2. Owes(work[h]) = {}
  BY OwesCases, IdleOK
<1>3. QED
  BY <1>1, <1>2, FreeIsApart, QuietMove DEF tables

\* A new order, a new verification and the script arrive.
LEMMA ReceiveOrderInv == ASSUME ProvisioningInv, NEW h \in Handlers, ReceiveOrder(h) PROVE ProvisioningInv'
<1>1. PICK o \in OrderRequests :
        /\ ValidOrder(o)
        /\ work' = [work EXCEPT ![h] = [Idle EXCEPT !.pc = "find", !.reseller = o.reseller,
                        !.key = o.key, !.domain = o.domain, !.list = o.list]]
  BY DEF ReceiveOrder
<1> DEFINE new == [Idle EXCEPT !.pc = "find", !.reseller = o.reseller,
                        !.key = o.key, !.domain = o.domain, !.list = o.list]
<1>2. o.reseller \in Resellers /\ o.key \in Keys /\ o.domain \in Domains /\ o.list \in Seq(Locals)
      /\ o.list # <<>>
  BY <1>1, ProvisioningConstants DEF ValidOrder
<1>3. /\ new \in JobType /\ new.pc = "find" /\ new.reseller = o.reseller /\ new.key = o.key
      /\ new.domain = o.domain /\ new.list = o.list /\ new.n = 0 /\ new.fresh = FALSE
  BY <1>2 DEF Idle, JobType, HandlerPcs
<1> HIDE DEF new
<1>4. JobOK(new)
  BY <1>2, <1>3 DEF JobOK, OrderPcs, VerifyPcs, InsertPcs, LockingPcs
<1>5. QED
  BY <1>1, <1>3, <1>4, ArrivalInv DEF ReceiveOrder, new

LEMMA ReceiveVerifyInv == ASSUME ProvisioningInv, NEW h \in Handlers, ReceiveVerify(h) PROVE ProvisioningInv'
<1>1. PICK r \in Resellers, d \in Domains :
        work' = [work EXCEPT ![h] = [Idle EXCEPT !.pc = "owned", !.reseller = r, !.domain = d]]
  BY DEF ReceiveVerify
<1> DEFINE new == [Idle EXCEPT !.pc = "owned", !.reseller = r, !.domain = d]
<1>2. new \in JobType /\ new.pc = "owned" /\ new.domain = d /\ new.fresh = FALSE
  BY IdleOK DEF JobType, HandlerPcs
<1> HIDE DEF new
<1>3. JobOK(new)
  BY <1>2 DEF JobOK, OrderPcs, VerifyPcs, InsertPcs, LockingPcs
<1>4. QED
  BY <1>1, <1>2, <1>3, ArrivalInv DEF ReceiveVerify, new

LEMMA RunScriptInv == ASSUME ProvisioningInv, NEW h \in Handlers, RunScript(h) PROVE ProvisioningInv'
<1>1. PICK d \in Domains : work' = [work EXCEPT ![h] = [Idle EXCEPT !.pc = "flag", !.domain = d]]
  BY DEF RunScript
<1> DEFINE new == [Idle EXCEPT !.pc = "flag", !.domain = d]
<1>2. new \in JobType /\ new.pc = "flag" /\ new.domain = d /\ new.fresh = FALSE
  BY IdleOK DEF JobType, HandlerPcs
<1> HIDE DEF new
<1>3. JobOK(new)
  BY <1>2 DEF JobOK, OrderPcs, VerifyPcs, InsertPcs, LockingPcs
<1>4. QED
  BY <1>1, <1>2, <1>3, ArrivalInv DEF RunScript, new

-----------------------------------------------------------------------------
(* Steps that take no row                                                  *)

\* A replay ends a request before it has inserted anything.
LEMMA FindInv ==
    ASSUME ProvisioningInv, NEW h \in Handlers,
           FindExistingOrder(h) \/ FindAgain(h) \/ RollBack(h) \/ AbortVictim(h)
    PROVE  ProvisioningInv'
<1>1. work[h].pc \notin {"reread", "rows", "add", "sadd"}
  BY DEF FindExistingOrder, FindAgain, RollBack, AbortVictim, Deadlocked, WaitsFor
<1>2. Owes(work[h]) = {}
  BY <1>1, OwesCases
<1>3. UNCHANGED <<orders, owner, mailboxes, verified, redis, api, rebuild, lost, faults>>
  BY DEF FindExistingOrder, FindAgain, RollBack, AbortVictim, tables
<1>4. CASE Finish(h)
  BY <1>2, <1>3, <1>4, FinishInv
<1>5. CASE work[h].pc = "find" /\ Goto(h, "claim")
  BY <1>2, <1>3, <1>5, FreeGoto DEF InsertPcs, HandlerPcs
<1>6. QED
  BY <1>4, <1>5 DEF FindExistingOrder, FindAgain, RollBack, AbortVictim

\* The checks of a verification change no table.
LEMMA VerifyInv ==
    ASSUME ProvisioningInv, NEW h \in Handlers, OwnedDomain(h) \/ LookupTxt(h)
    PROVE  ProvisioningInv'
<1>1. work[h].pc \in {"owned", "dns"}
  BY DEF OwnedDomain, LookupTxt
<1>2. Owes(work[h]) = {}
  BY <1>1, OwesCases
<1>3. UNCHANGED <<orders, owner, mailboxes, verified, redis, api, rebuild, lost, faults>>
  BY DEF OwnedDomain, LookupTxt, tables
<1>4. CASE Finish(h)
  BY <1>2, <1>3, <1>4, FinishInv
<1>5. ASSUME NEW p \in {"dns", "flag", "rows"}, Goto(h, p) PROVE ProvisioningInv'
  BY <1>1, <1>2, <1>3, <1>5, FreeGoto DEF InsertPcs, HandlerPcs, VerifyPcs
<1>6. QED
  BY <1>4, <1>5 DEF OwnedDomain, LookupTxt

-----------------------------------------------------------------------------
(* Steps that take rows                                                    *)

\* A key is claimed by one order at a time.
LEMMA ClaimKeyInv == ASSUME ProvisioningInv, NEW h \in Handlers, ClaimKey(h) PROVE ProvisioningInv'
<1>1. work[h].pc = "claim" /\ WaitsFor(h) = {}
      /\ UNCHANGED <<orders, owner, mailboxes, verified, redis, api, rebuild, lost, faults>>
  BY DEF ClaimKey, tables
<1>2. Owes(work[h]) = {}
  BY <1>1, OwesCases
<1>3. CASE \E o \in orders : o.key = work[h].key
  BY <1>1, <1>2, <1>3, FreeGoto DEF ClaimKey, AfterConflict, InsertPcs, HandlerPcs
<1>4. CASE \A o \in orders : o.key # work[h].key
  <2>1. Goto(h, "domain")
    BY <1>4 DEF ClaimKey
  <2>2. PICK new \in JobType :
            /\ work' = [work EXCEPT ![h] = new] /\ new.pc = "domain"
            /\ new.reseller = work[h].reseller /\ new.key = work[h].key
            /\ new.domain = work[h].domain /\ new.list = work[h].list /\ new.n = work[h].n
            /\ new.fresh = work[h].fresh
    BY <2>1, GotoNew DEF HandlerPcs
  <2>3. JobOK(work[h])
    BY DEF ProvisioningInv
  <2>4. JobOK(new)
    BY <1>1, <1>4, <2>2, <2>3 DEF JobOK, OrderPcs, VerifyPcs, InsertPcs, LockingPcs
  <2>5. \A g \in Handlers \ {h} : work[g].pc \in LockingPcs => work[g].key # new.key
    BY <1>1, <2>2 DEF WaitsFor, HoldsKey, LockingPcs
  <2>6. ~new.fresh /\ new.pc \notin InsertPcs
    BY <2>2, <2>4 DEF JobOK, InsertPcs
  <2>7. \A g \in Handlers \ {h} : Apart(work[g], new) /\ Apart(new, work[g])
    BY <2>5, <2>6 DEF Apart
  <2>8. QED
    BY <1>1, <1>2, <2>2, <2>4, <2>7, QuietMove
<1>5. QED
  BY <1>3, <1>4

\* A domain that is inserted is nobody's; one that is reused is the reseller's.
LEMMA InsertDomainInv == ASSUME ProvisioningInv, NEW h \in Handlers, InsertDomain(h) PROVE ProvisioningInv'
<1> DEFINE w == work[h]
<1>1. w.pc = "domain" /\ WaitsFor(h) = {}
      /\ UNCHANGED <<orders, owner, mailboxes, verified, redis, api, rebuild, lost, faults>>
  BY DEF InsertDomain, tables
<1>2. Owes(w) = {}
  BY <1>1, OwesCases
<1>3. w \in JobType /\ JobOK(w)
  BY DEF ProvisioningInv
<1>4. /\ w.n = 0 /\ w.list # <<>> /\ w.reseller \in Resellers /\ w.key \in Keys
      /\ w.domain \in Domains /\ w.fresh = FALSE /\ \A o \in orders : o.key # w.key
  BY <1>1, <1>3 DEF JobOK, JobType, OrderPcs, InsertPcs, LockingPcs
<1>5. 0 < Len(w.list)
  BY <1>3, <1>4 DEF JobType
<1>6. ASSUME NEW fr \in BOOLEAN,
             owner[w.domain] = IF fr THEN NoOne ELSE w.reseller,
             work' = [work EXCEPT ![h] = [w EXCEPT !.pc = "mailbox", !.fresh = fr]]
      PROVE  ProvisioningInv'
  <2> DEFINE new == [w EXCEPT !.pc = "mailbox", !.fresh = fr]
  <2>1. /\ new \in JobType /\ new.pc = "mailbox" /\ new.fresh = fr /\ new.reseller = w.reseller
        /\ new.key = w.key /\ new.domain = w.domain /\ new.list = w.list /\ new.n = 0
    BY <1>3, <1>4 DEF JobType, HandlerPcs
  <2> HIDE DEF new
  <2>2. Inserted(new) = {}
    BY <2>1 DEF Inserted
  <2>3. JobOK(new)
    BY <1>4, <1>5, <1>6, <2>1, <2>2 DEF JobOK, OrderPcs, VerifyPcs, InsertPcs, LockingPcs
  <2>4. \A g \in Handlers \ {h} : Apart(work[g], w) /\ Apart(w, work[g])
    BY DEF ProvisioningInv
  <2>5. \A g \in Handlers \ {h} : work[g].pc \in LockingPcs => work[g].key # new.key
    BY <1>1, <2>1, <2>4 DEF Apart, LockingPcs
  <2>6. \A g \in Handlers \ {h} : work[g].fresh => work[g].domain # new.domain
    BY <1>1, <2>1 DEF WaitsFor, HoldsDomain
  <2>7. \A g \in Handlers \ {h} : Apart(work[g], new) /\ Apart(new, work[g])
    BY <2>2, <2>5, <2>6 DEF Apart
  <2>8. work' = [work EXCEPT ![h] = new]
    BY <1>6 DEF new
  <2>9. QED
    BY <1>1, <1>2, <2>1, <2>3, <2>7, <2>8, QuietMove
<1>7. CASE owner[w.domain] = NoOne /\ work' = [work EXCEPT ![h].pc = "mailbox", ![h].fresh = TRUE]
  BY <1>6, <1>7
<1>8. CASE Reusable(w.domain, w.reseller) /\ Goto(h, "mailbox")
  <2>1. [w EXCEPT !.pc = "mailbox", !.fresh = FALSE] = [w EXCEPT !.pc = "mailbox"]
    BY <1>3, <1>4 DEF JobType
  <2>2. QED
    BY <1>6, <1>8, <2>1 DEF Goto, Reusable
<1>9. CASE Finish(h)
  BY <1>1, <1>2, <1>9, FinishInv
<1>10. QED
  BY <1>7, <1>8, <1>9 DEF InsertDomain

\* What an insert leaves as it was.
LEMMA CountedJob ==
    ASSUME NEW w \in JobType, NEW p \in HandlerPcs
    PROVE  LET v == [w EXCEPT !.n = @ + 1, !.pc = p] IN
           /\ v \in JobType /\ v.pc = p /\ v.fresh = w.fresh
           /\ v.reseller = w.reseller /\ v.key = w.key /\ v.domain = w.domain
           /\ v.list = w.list /\ v.n = w.n + 1
<1>1. w.n \in Nat
  BY DEF JobType
<1>2. ASSUME NEW m \in Nat
      PROVE  LET v == [w EXCEPT !.n = m, !.pc = p] IN
           /\ v \in JobType /\ v.pc = p /\ v.fresh = w.fresh
           /\ v.reseller = w.reseller /\ v.key = w.key /\ v.domain = w.domain
           /\ v.list = w.list /\ v.n = m
  BY DEF JobType
<1>3. w.n + 1 \in Nat
  BY <1>1
<1>4. QED
  BY <1>2, <1>3

\* A mailbox that is inserted is of no other open order, and of no committed one.
LEMMA InsertMailboxInv == ASSUME ProvisioningInv, NEW h \in Handlers, InsertMailbox(h) PROVE ProvisioningInv'
<1> DEFINE w == work[h]
<1>1. w.pc = "mailbox" /\ WaitsFor(h) = {}
      /\ UNCHANGED <<orders, owner, mailboxes, verified, redis, api, rebuild, lost, faults>>
  BY DEF InsertMailbox, tables
<1>2. Owes(w) = {}
  BY <1>1, OwesCases
<1>3. w \in JobType /\ JobOK(w)
  BY DEF ProvisioningInv
<1>4. CASE Finish(h)
  BY <1>1, <1>2, <1>4, FinishInv
<1>5. CASE /\ NextMailbox(w) \notin mailboxes
           /\ work' = [work EXCEPT ![h].n = @ + 1, ![h].pc = AfterInsert(w)]
  <2> DEFINE new == [w EXCEPT !.n = @ + 1, !.pc = AfterInsert(w)]
  <2>1. w.n \in Nat /\ w.n < Len(w.list) /\ Len(w.list) \in Nat
    BY <1>1, <1>3 DEF JobOK, JobType
  <2>2. /\ AfterInsert(w) \in InsertPcs /\ AfterInsert(w) \in HandlerPcs
        /\ AfterInsert(w) = "mailbox" => w.n + 1 < Len(w.list)
        /\ AfterInsert(w) = "commit" => w.n + 1 = Len(w.list)
    BY <2>1 DEF AfterInsert, InsertPcs, HandlerPcs
  <2>3. /\ new \in JobType /\ new.pc = AfterInsert(w) /\ new.fresh = w.fresh
        /\ new.reseller = w.reseller /\ new.key = w.key /\ new.domain = w.domain
        /\ new.list = w.list /\ new.n = w.n + 1
    BY <1>3, <2>1, <2>2, CountedJob
  <2> HIDE DEF new
  <2>4. Inserted(new) = Inserted(w) \cup {NextMailbox(w)}
    <3>1. 1..(w.n + 1) = (1..w.n) \cup {w.n + 1}
      BY <2>1
    <3>2. QED
      BY <2>3, <3>1 DEF Inserted, NextMailbox
  <2>5. Inserted(w) \cap mailboxes = {}
    BY <1>1, <1>3 DEF JobOK, InsertPcs
  <2>6. JobOK(new)
    BY <1>1, <1>3, <1>5, <2>2, <2>3, <2>4, <2>5 DEF JobOK, OrderPcs, VerifyPcs, InsertPcs, LockingPcs
  <2>7. ASSUME NEW g \in Handlers \ {h} PROVE Apart(work[g], new) /\ Apart(new, work[g])
    <3>1. Apart(work[g], w) /\ Apart(w, work[g])
      BY DEF ProvisioningInv
    <3>2. work[g].pc \in InsertPcs => NextMailbox(w) \notin Inserted(work[g])
      BY <1>1 DEF WaitsFor, HoldsMailbox, InsertPcs
    <3>3. QED
      BY <1>1, <2>2, <2>3, <2>4, <3>1, <3>2 DEF Apart, InsertPcs, LockingPcs
  <2>8. work' = [work EXCEPT ![h] = new]
    BY <1>5 DEF new
  <2>9. QED
    BY <1>1, <1>2, <2>3, <2>6, <2>7, <2>8, QuietMove
<1>6. QED
  BY <1>4, <1>5 DEF InsertMailbox, TakenMailbox

-----------------------------------------------------------------------------
(* Commits                                                                 *)

\* The tables only grow, and so does what may be delivered and what is owed.
LEMMA TablesGrow ==
    ASSUME mailboxes \subseteq mailboxes', verified \subseteq verified'
    PROVE  /\ Deliverable \subseteq Deliverable'
           /\ \A w : Owes(w) \subseteq Owes(w)'
<1>1. Deliverable \subseteq Deliverable'
  BY DEF Deliverable, Rows
<1>2. ASSUME NEW w PROVE Owes(w) \subseteq Owes(w)'
  BY <1>1 DEF Owes
<1>3. QED
  BY <1>1, <1>2

\* A commit makes all rows of an order visible, and of that order alone.
LEMMA CommitOrderInv == ASSUME ProvisioningInv, NEW h \in Handlers, CommitOrder(h) PROVE ProvisioningInv'
<1> DEFINE w == work[h]
           o1 == [reseller |-> w.reseller, key |-> w.key, domain |-> w.domain, list |-> w.list]
<1>1. /\ w.pc = "commit" /\ orders' = orders \cup {o1}
      /\ owner' = [owner EXCEPT ![w.domain] = w.reseller]
      /\ mailboxes' = mailboxes \cup Inserted(w)
      /\ work' = [work EXCEPT ![h] = [w EXCEPT !.pc = "reread", !.fresh = FALSE]]
      /\ UNCHANGED <<verified, validAddresses, catchAllDomains, api, rebuild, lost, faults>>
  BY DEF CommitOrder, redis
<1>2. w \in JobType /\ JobOK(w)
  BY DEF ProvisioningInv
<1>3. /\ w.reseller \in Resellers /\ w.key \in Keys /\ w.domain \in Domains /\ w.list # <<>>
      /\ w.n = Len(w.list) /\ w.list \in Seq(Locals)
      /\ \A o \in orders : o.key # w.key
      /\ owner[w.domain] = IF w.fresh THEN NoOne ELSE w.reseller
      /\ Inserted(w) \cap mailboxes = {}
  BY <1>1, <1>2 DEF JobOK, JobType, OrderPcs, LockingPcs, InsertPcs
<1>4. PICK new \in JobType :
        /\ new = [w EXCEPT !.pc = "reread", !.fresh = FALSE]
        /\ new.pc = "reread" /\ new.fresh = FALSE /\ new.reseller = w.reseller
        /\ new.key = w.key /\ new.domain = w.domain /\ new.list = w.list /\ new.n = w.n
  <2> DEFINE x == [w EXCEPT !.pc = "reread", !.fresh = FALSE]
  <2>1. x \in JobType
    BY <1>2 DEF JobType, HandlerPcs
  <2>2. /\ x.pc = "reread" /\ x.fresh = FALSE /\ x.reseller = w.reseller
        /\ x.key = w.key /\ x.domain = w.domain /\ x.list = w.list /\ x.n = w.n
    BY <1>2 DEF JobType
  <2> HIDE DEF x
  <2>3. QED
    BY <2>1, <2>2 DEF x
<1>5. /\ o1 \in OrderRow /\ o1.reseller = w.reseller /\ o1.key = w.key /\ o1.domain = w.domain
      /\ Ordered(o1) = Inserted(w)
  BY <1>3 DEF OrderRow, Ordered, Inserted
<1>6. Ordered(new) = Inserted(w)
  BY <1>3, <1>4 DEF Ordered, Inserted
<1> HIDE DEF o1
<1>7. Inserted(w) \subseteq Addresses
  BY <1>3 DEF Inserted, Addresses
<1>8. mailboxes \subseteq mailboxes' /\ verified \subseteq verified'
  BY <1>1
<1>9. Deliverable \subseteq Deliverable' /\ \A v : Owes(v) \subseteq Owes(v)'
  BY <1>8, TablesGrow
<1>10. \A g \in Handlers : work'[g] = IF g = h THEN new ELSE work[g]
  BY <1>1, <1>4 DEF ProvisioningInv
<1>11. RowTypes' /\ CacheTypes' /\ work' \in [Handlers -> JobType]
  BY <1>1, <1>3, <1>4, <1>5, <1>7 DEF ProvisioningInv, RowTypes, CacheTypes
<1>12. NoOne \notin Resellers
  BY ProvisioningConstants
<1>13. \A d \in Domains : owner'[d] = IF d = w.domain THEN w.reseller ELSE owner[d]
  BY <1>1, <1>3 DEF ProvisioningInv, RowTypes
<1>14. OrdersAreWhole' /\ LegacyMailboxes \subseteq mailboxes'
  <2>1. OrdersAreWhole /\ LegacyMailboxes \subseteq mailboxes /\ orders \subseteq OrderRow
    BY DEF ProvisioningInv, RowTypes
  <2>2. \A o \in orders : o.domain \in Domains /\ o.reseller \in Resellers
    BY <2>1 DEF OrderRow
  <2>3. \A o \in orders : owner'[o.domain] = o.reseller
    BY <1>3, <1>12, <1>13, <2>1, <2>2 DEF OrdersAreWhole
  <2>4. \A o \in orders' : owner'[o.domain] = o.reseller
    BY <1>1, <1>3, <1>5, <1>13, <2>3
  <2>5. \A o \in orders' : Ordered(o) \subseteq mailboxes' \ LegacyMailboxes
    BY <1>1, <1>3, <1>5, <2>1 DEF OrdersAreWhole
  <2>6. \A a \in mailboxes' \ LegacyMailboxes : \E o \in orders' : a \in Ordered(o)
    BY <1>1, <1>5, <2>1 DEF OrdersAreWhole
  <2>7. \A o \in orders : o.key # o1.key /\ Ordered(o) \cap Ordered(o1) = {}
    BY <1>3, <1>5, <2>1 DEF OrdersAreWhole
  <2>8. \A o, q \in orders' : o = q \/ (o.key # q.key /\ Ordered(o) \cap Ordered(q) = {})
    BY <1>1, <2>1, <2>7 DEF OrdersAreWhole
  <2>9. QED
    BY <1>8, <2>1, <2>4, <2>5, <2>6, <2>8 DEF OrdersAreWhole, Ordered
<1>15. ASSUME NEW v, NEW g \in Handlers \ {h}, v = work[g]
       PROVE  JobOK(v)'
  <2>1. JobOK(v) /\ v \in JobType /\ Apart(v, w)
    BY <1>15 DEF ProvisioningInv
  <2>2. v.pc \in LockingPcs => \A o \in orders' : o.key # v.key
    BY <1>1, <1>5, <2>1 DEF JobOK, Apart, LockingPcs
  <2>3. v.pc \in InsertPcs =>
          /\ owner'[v.domain] = IF v.fresh THEN NoOne ELSE v.reseller
          /\ Inserted(v) \cap mailboxes' = {}
    <3> SUFFICES ASSUME v.pc \in InsertPcs
        PROVE  /\ owner'[v.domain] = IF v.fresh THEN NoOne ELSE v.reseller
               /\ Inserted(v) \cap mailboxes' = {}
      OBVIOUS
    <3>1. v.fresh \in BOOLEAN /\ w.fresh \in BOOLEAN
      BY <1>2, <2>1 DEF JobType
    <3>2. /\ v.domain \in Domains /\ v.reseller \in Resellers
          /\ owner[v.domain] = IF v.fresh THEN NoOne ELSE v.reseller
          /\ Inserted(v) \cap mailboxes = {}
      BY <2>1 DEF JobOK, InsertPcs, OrderPcs
    <3>3. w.pc \in InsertPcs
      BY <1>1 DEF InsertPcs
    <3>4. ~(v.fresh /\ w.fresh /\ v.domain = w.domain) /\ Inserted(v) \cap Inserted(w) = {}
      BY <2>1, <3>3 DEF Apart
    <3>5. Inserted(v) \cap mailboxes' = {}
      BY <1>1, <3>2, <3>4
    <3>6. owner'[v.domain] = IF v.fresh THEN NoOne ELSE v.reseller
      BY <1>3, <1>12, <1>13, <3>1, <3>2, <3>4
    <3>7. QED
      BY <3>5, <3>6
  <2>4. v.pc = "reread" => Ordered(v) \subseteq mailboxes'
    BY <1>8, <2>1 DEF JobOK
  <2>5. v.pc \in {"add", "sadd"} => v.rows \subseteq Deliverable'
    BY <1>9, <2>1 DEF JobOK
  <2>6. QED
    BY <2>1, <2>2, <2>3, <2>4, <2>5 DEF JobOK
<1>16. JobOK(new)'
  BY <1>1, <1>3, <1>4, <1>6 DEF JobOK, OrderPcs, VerifyPcs, InsertPcs, LockingPcs
<1>17. \A g \in Handlers : JobOK(work[g])'
  BY <1>10, <1>15, <1>16
<1>18. \A g, k \in Handlers : g # k => Apart(work'[g], work'[k])
  <2>1. new.pc \notin LockingPcs /\ ~new.fresh
    BY <1>4 DEF LockingPcs
  <2>2. QED
    BY <1>10, <2>1, FreeIsApart DEF ProvisioningInv
<1>19. rebuild' \subseteq Deliverable' /\ CacheIsNeverStale'
  BY <1>1, <1>9 DEF ProvisioningInv, CacheIsNeverStale
<1>20. NoSilentGap'
  <2> SUFFICES ASSUME NEW a \in Deliverable', a \notin validAddresses, a \notin lost
      PROVE  \E g \in Handlers : a \in Owes(work[g])'
    BY <1>1 DEF NoSilentGap
  <2>1. CASE a \in Deliverable
    <3>1. PICK g \in Handlers : a \in Owes(work[g])
      BY <2>1 DEF ProvisioningInv, NoSilentGap
    <3>2. g # h
      BY <1>1, <3>1, OwesCases
    <3>3. a \in Owes(work[g])'
      BY <1>9, <1>10, <3>1, <3>2
    <3>4. QED
      BY <3>3
  <2>2. CASE a \notin Deliverable
    <3>1. a \in Inserted(w) /\ a[1] \in verified
      BY <1>1, <2>2 DEF Deliverable, Rows
    <3>2. Owes(new)' = {b \in Ordered(new) : b[1] \in verified}
      BY <1>1, <1>4 DEF Owes
    <3>3. a \in Owes(work[h])'
      BY <1>6, <1>10, <3>1, <3>2
    <3>4. QED
      BY <3>3
  <2>3. QED
    BY <2>1, <2>2
<1>21. QED
  BY <1>11, <1>14, <1>17, <1>18, <1>19, <1>20 DEF ProvisioningInv, Apart

\* The flag is set; the addresses of the domain become deliverable, and are owed.
LEMMA CommitVerifiedInv == ASSUME ProvisioningInv, NEW h \in Handlers, CommitVerified(h) PROVE ProvisioningInv'
<1>1. /\ work[h].pc = "flag" /\ verified' = verified \cup {work[h].domain} /\ Goto(h, "rows")
      /\ UNCHANGED <<orders, owner, mailboxes, validAddresses, catchAllDomains, api, rebuild, lost, faults>>
  BY DEF CommitVerified, redis
<1>2. PICK new \in JobType :
            /\ work' = [work EXCEPT ![h] = new] /\ new.pc = "rows"
            /\ new.domain = work[h].domain /\ new.fresh = work[h].fresh
  BY <1>1, GotoNew DEF HandlerPcs
<1>3. JobOK(work[h]) /\ work[h].domain \in Domains /\ ~work[h].fresh
  BY <1>1 DEF ProvisioningInv, JobOK, VerifyPcs, InsertPcs
<1>4. Deliverable \subseteq Deliverable' /\ \A v : Owes(v) \subseteq Owes(v)'
  BY <1>1, TablesGrow
<1>5. \A g \in Handlers : work'[g] = IF g = h THEN new ELSE work[g]
  BY <1>2 DEF ProvisioningInv
<1>6. RowTypes' /\ CacheTypes' /\ work' \in [Handlers -> JobType]
  BY <1>1, <1>2, <1>3 DEF ProvisioningInv, RowTypes, CacheTypes
<1>7. OrdersAreWhole' /\ LegacyMailboxes \subseteq mailboxes'
  BY <1>1 DEF ProvisioningInv, OrdersAreWhole
<1>8. \A v : JobOK(v) => JobOK(v)'
  BY <1>1, <1>4 DEF JobOK
<1>9. JobOK(new)
  BY <1>2, <1>3 DEF JobOK, OrderPcs, VerifyPcs, InsertPcs, LockingPcs
<1>10. \A g \in Handlers : JobOK(work[g])'
  BY <1>5, <1>8, <1>9 DEF ProvisioningInv
<1>11. \A g, k \in Handlers : g # k => Apart(work'[g], work'[k])
  <2>1. new.pc \notin LockingPcs /\ ~new.fresh
    BY <1>2, <1>3 DEF LockingPcs
  <2>2. QED
    BY <1>5, <2>1, FreeIsApart DEF ProvisioningInv
<1>12. rebuild' \subseteq Deliverable' /\ CacheIsNeverStale'
  BY <1>1, <1>4 DEF ProvisioningInv, CacheIsNeverStale
<1>13. NoSilentGap'
  <2> SUFFICES ASSUME NEW a \in Deliverable', a \notin validAddresses, a \notin lost
      PROVE  \E g \in Handlers : a \in Owes(work[g])'
    BY <1>1 DEF NoSilentGap
  <2>1. CASE a \in Deliverable
    <3>1. PICK g \in Handlers : a \in Owes(work[g])
      BY <2>1 DEF ProvisioningInv, NoSilentGap
    <3>2. g # h
      BY <1>1, <3>1, OwesCases
    <3>3. a \in Owes(work[g])'
      BY <1>4, <1>5, <3>1, <3>2
    <3>4. QED
      BY <3>3
  <2>2. CASE a \notin Deliverable
    <3>1. a[1] = new.domain
      BY <1>1, <1>2, <2>2 DEF Deliverable, Rows
    <3>2. Owes(new)' = {b \in Deliverable' : b[1] = new.domain}
      BY <1>2 DEF Owes
    <3>3. a \in Owes(work[h])'
      BY <1>5, <3>1, <3>2
    <3>4. QED
      BY <3>3
  <2>3. QED
    BY <2>1, <2>2
<1>14. QED
  BY <1>6, <1>7, <1>10, <1>11, <1>12, <1>13 DEF ProvisioningInv, Apart

-----------------------------------------------------------------------------
(* Publications                                                            *)

\* A handler takes note of the rows it will publish.
LEMMA NoteRows ==
    ASSUME ProvisioningInv, NEW h \in Handlers, NEW p \in {"add", "sadd"}, NEW rs \in SUBSET Deliverable,
           work' = [work EXCEPT ![h].pc = p, ![h].rows = rs],
           \/ (work[h].pc = "reread" /\ p = "add")
           \/ (work[h].pc = "rows" /\ p = "sadd"),
           Owes(work[h]) \subseteq rs,
           UNCHANGED <<tables, redis, api, rebuild, lost, faults>>
    PROVE  ProvisioningInv'
<1> DEFINE new == [work[h] EXCEPT !.pc = p, !.rows = rs]
<1>1. work[h] \in JobType /\ JobOK(work[h])
  BY DEF ProvisioningInv
<1>2. rs \in SUBSET Addresses
  BY ProvisioningConstants DEF ProvisioningInv, RowTypes, Deliverable, Rows, Addresses
<1>3. /\ new \in JobType /\ new.pc = p /\ new.rows = rs /\ new.reseller = work[h].reseller
      /\ new.key = work[h].key /\ new.domain = work[h].domain /\ new.list = work[h].list
      /\ new.n = work[h].n /\ new.fresh = work[h].fresh
  BY <1>1, <1>2 DEF JobType, HandlerPcs
<1>4. work' = [work EXCEPT ![h] = new]
  OBVIOUS
<1> HIDE DEF new
<1>5. ~new.fresh /\ new.pc \notin LockingPcs
  BY <1>1, <1>3 DEF JobOK, InsertPcs, LockingPcs
<1>6. JobOK(new)
  BY <1>1, <1>3, <1>5 DEF JobOK, OrderPcs, VerifyPcs, InsertPcs, LockingPcs
<1>7. Owes(work[h]) \subseteq Owes(new)
  BY <1>3, OwesCases
<1>8. QED
  BY <1>3, <1>4, <1>5, <1>6, <1>7, FreeIsApart, QuietMove DEF tables

\* A flag read after the commit: the order owes its addresses, or nothing.
LEMMA RereadInv == ASSUME ProvisioningInv, NEW h \in Handlers, RereadVerified(h) PROVE ProvisioningInv'
<1> DEFINE w == work[h]
<1>1. /\ w.pc = "reread" /\ UNCHANGED <<tables, redis, api, rebuild, lost, faults>>
      /\ JobOK(w) /\ Owes(w) = {a \in Ordered(w) : a[1] \in verified}
  BY OwesCases DEF RereadVerified, ProvisioningInv
<1>2. \A a \in Ordered(w) : a[1] = w.domain /\ a \in mailboxes
  BY <1>1 DEF JobOK, Ordered
<1>3. CASE w.domain \in verified
  <2>1. Ordered(w) \in SUBSET Deliverable
    BY <1>2, <1>3 DEF Deliverable, Rows
  <2>2. work' = [work EXCEPT ![h].pc = "add", ![h].rows = Ordered(w)]
    BY <1>3 DEF RereadVerified, Published
  <2>3. Owes(w) \subseteq Ordered(w)
    BY <1>1
  <2>4. UNCHANGED <<tables, redis, api, rebuild, lost, faults>>
    BY <1>1
  <2>5. "add" \in {"add", "sadd"} /\ work[h].pc = "reread"
    BY <1>1
  <2>6. QED
    BY <2>1, <2>2, <2>3, <2>4, <2>5, NoteRows
<1>4. CASE w.domain \notin verified
  <2>1. Owes(w) = {}
    BY <1>1, <1>2, <1>4
  <2>2. QED
    BY <1>1, <1>4, <2>1, FinishInv DEF RereadVerified, tables
<1>5. QED
  BY <1>3, <1>4

\* The rows that are read are all the domain has at that moment.
LEMMA ReadRowsInv == ASSUME ProvisioningInv, NEW h \in Handlers, ReadRows(h) PROVE ProvisioningInv'
<1>1. /\ work[h].pc = "rows" /\ UNCHANGED <<tables, redis, api, rebuild, lost, faults>>
      /\ work' = [work EXCEPT ![h].pc = "sadd", ![h].rows = AddressQuery({work[h].domain})]
  BY DEF ReadRows
<1>2. AddressQuery({work[h].domain}) = {a \in Deliverable : a[1] = work[h].domain}
  BY DEF AddressQuery, Deliverable
<1>3. AddressQuery({work[h].domain}) \in SUBSET Deliverable
      /\ Owes(work[h]) \subseteq AddressQuery({work[h].domain})
  BY <1>1, <1>2, OwesCases
<1>4. QED
  BY <1>1, <1>3, NoteRows

\* What is published is deliverable and was owed.
LEMMA PublishInv == ASSUME ProvisioningInv, NEW h \in Handlers, Publish(h) PROVE ProvisioningInv'
<1> DEFINE w == work[h]
<1>1. /\ w.pc \in {"add", "sadd"} /\ validAddresses' = validAddresses \cup w.rows
      /\ lost' = lost \ w.rows
      /\ UNCHANGED <<orders, owner, mailboxes, verified, catchAllDomains, api, rebuild, faults>>
  BY DEF Publish, tables
<1>2. w \in JobType /\ JobOK(w) /\ Owes(w) = w.rows /\ w.rows \subseteq Deliverable
  BY <1>1, OwesCases DEF ProvisioningInv, JobOK
<1>3. /\ validAddresses \subseteq validAddresses' /\ validAddresses' \subseteq Deliverable
      /\ catchAllDomains' \subseteq LegacyCatchAll \cap verified
      /\ lost' \subseteq Addresses /\ lost \subseteq lost' \cup validAddresses'
  BY <1>1, <1>2 DEF ProvisioningInv, CacheIsNeverStale, CacheTypes
<1>4. ASSUME NEW new \in JobType, JobOK(new), work' = [work EXCEPT ![h] = new],
             new.pc \notin LockingPcs, ~new.fresh
      PROVE  ProvisioningInv'
  BY <1>1, <1>2, <1>3, <1>4, FreeIsApart, JobMoves
<1>5. CASE Finish(h)
  BY <1>4, <1>5, IdleOK DEF Finish, LockingPcs
<1>6. CASE w.pc = "sadd" /\ Goto(h, "catch")
  <2>1. PICK new \in JobType :
            /\ work' = [work EXCEPT ![h] = new] /\ new.pc = "catch"
            /\ new.domain = w.domain /\ new.fresh = w.fresh
    BY <1>6, GotoNew DEF HandlerPcs
  <2>2. JobOK(new) /\ ~new.fresh /\ new.pc \notin LockingPcs
    BY <1>2, <1>6, <2>1 DEF JobOK, OrderPcs, VerifyPcs, InsertPcs, LockingPcs
  <2>3. QED
    BY <1>4, <2>1, <2>2
<1>7. QED
  BY <1>1, <1>5, <1>6 DEF Publish

\* A handler that gives up leaves in `lost' what it owed.
LEMMA EndInv ==
    ASSUME ProvisioningInv, NEW h \in Handlers, PublishCatchAll(h) \/ GiveUp(h)
    PROVE  ProvisioningInv'
<1>1. \A g \in Handlers : Apart(work[g], Idle) /\ Apart(Idle, work[g])
  BY IdleOK, FreeIsApart DEF LockingPcs
<1>2. /\ work' = [work EXCEPT ![h] = Idle]
      /\ UNCHANGED <<orders, owner, mailboxes, verified, api, rebuild, faults, validAddresses>>
  BY DEF PublishCatchAll, GiveUp, Finish, tables, redis
<1>3. /\ validAddresses' \subseteq Deliverable /\ catchAllDomains \subseteq LegacyCatchAll \cap verified
      /\ lost \subseteq Addresses
  BY <1>2 DEF ProvisioningInv, CacheIsNeverStale, CacheTypes
<1>4. CASE PublishCatchAll(h)
  <2>1. Owes(work[h]) = {} /\ lost' = lost /\ catchAllDomains' \subseteq LegacyCatchAll \cap verified
    BY <1>3, <1>4, OwesCases DEF PublishCatchAll
  <2>2. QED
    BY <1>1, <1>2, <1>3, <2>1, IdleOK, JobMoves
<1>5. CASE GiveUp(h)
  <2>1. lost' = lost \cup (Owes(work[h]) \ validAddresses) /\ catchAllDomains' = catchAllDomains
    BY <1>5 DEF GiveUp, redis
  <2>2. Owes(work[h]) \subseteq Addresses
    <3>1. work[h] \in JobType /\ JobOK(work[h])
      BY DEF ProvisioningInv
    <3>2. Deliverable \subseteq Addresses /\ mailboxes \subseteq Addresses
      BY ProvisioningConstants DEF Deliverable, Rows, ProvisioningInv, RowTypes, Addresses
    <3>3. QED
      BY <3>1, <3>2, OwesCases DEF JobOK, JobType, Owes
  <2>3. QED
    BY <1>1, <1>2, <1>3, <2>1, <2>2, IdleOK, JobMoves
<1>6. QED
  BY <1>4, <1>5

-----------------------------------------------------------------------------
(* The API process and Redis                                               *)

\* Rows and handlers stay; the Redis sets change.
LEMMA CacheMoves ==
    ASSUME ProvisioningInv, UNCHANGED <<orders, owner, mailboxes, verified, work>>,
           CacheTypes', rebuild' \subseteq Deliverable,
           validAddresses' \subseteq Deliverable,
           catchAllDomains' \subseteq LegacyCatchAll \cap verified,
           validAddresses \cup lost \subseteq validAddresses' \cup lost'
    PROVE  ProvisioningInv'
<1>1. Deliverable' = Deliverable
  BY DEF Deliverable, Rows
<1>2. \A w : JobOK(w)' <=> JobOK(w)
  BY <1>1 DEF JobOK
<1>3. \A w : Owes(w)' = Owes(w)
  BY <1>1 DEF Owes
<1>4. \A h \in Handlers : JobOK(work[h])'
  BY <1>2 DEF ProvisioningInv
<1>5. NoSilentGap'
  <2>1. \A h \in Handlers : Owes(work[h])' = Owes(work[h])
    BY <1>3
  <2> SUFFICES ASSUME NEW a \in Deliverable, a \notin validAddresses', a \notin lost'
      PROVE  \E h \in Handlers : a \in Owes(work[h])'
    BY <1>1 DEF NoSilentGap
  <2>2. a \notin validAddresses /\ a \notin lost
    OBVIOUS
  <2>3. QED
    BY <2>1, <2>2 DEF ProvisioningInv, NoSilentGap
<1>6. CacheIsNeverStale' /\ rebuild' \subseteq Deliverable'
  BY <1>1 DEF CacheIsNeverStale
<1>7. RowTypes' /\ work' \in [Handlers -> JobType] /\ OrdersAreWhole' /\ LegacyMailboxes \subseteq mailboxes'
      /\ \A g, h \in Handlers : g # h => Apart(work'[g], work'[h])
  BY DEF ProvisioningInv, RowTypes, OrdersAreWhole
<1>8. QED
  BY <1>4, <1>5, <1>6, <1>7 DEF ProvisioningInv, Apart

\* A start, and a loss of Redis, account for every address they take away.
LEMMA BootInv == ASSUME ProvisioningInv, Boot \/ LoseRedis PROVE ProvisioningInv'
<1>1. /\ CacheTypes /\ rebuild \subseteq Deliverable /\ validAddresses \subseteq Deliverable
      /\ catchAllDomains \subseteq LegacyCatchAll \cap verified
      /\ Deliverable \subseteq Addresses /\ verified \subseteq Domains
  BY ProvisioningConstants DEF ProvisioningInv, CacheIsNeverStale, Deliverable, Rows, RowTypes, Addresses
<1>2. UNCHANGED <<orders, owner, mailboxes, verified, work>>
  BY DEF Boot, Start, ReadAll, SwapSet, SwapCatchAll, LoseRedis, tables
<1>3. CASE Start
  BY <1>1, <1>2, <1>3, CacheMoves DEF Start, redis, CacheTypes
<1>4. CASE ReadAll
  <2>1. rebuild' \subseteq Deliverable
    BY <1>4 DEF ReadAll, Rebuilt, AddressQuery, Deliverable
  <2>2. QED
    BY <1>1, <1>2, <1>4, <2>1, CacheMoves DEF ReadAll, redis, CacheTypes
<1>5. CASE SwapSet
  BY <1>1, <1>2, <1>5, CacheMoves DEF SwapSet, CacheTypes
<1>6. CASE SwapCatchAll
  BY <1>1, <1>2, <1>6, CacheMoves DEF SwapCatchAll, CacheTypes
<1>7. CASE LoseRedis
  <2>1. faults' \in 0..MaxFaults
    BY <1>1, <1>7, ProvisioningConstants DEF LoseRedis, Fault, CacheTypes
  <2>2. QED
    BY <1>1, <1>2, <1>7, <2>1, CacheMoves DEF LoseRedis, CacheTypes
<1>8. QED
  BY <1>3, <1>4, <1>5, <1>6, <1>7 DEF Boot

\* What the requests that die with the API owed is lost.
LEMMA CrashInv == ASSUME ProvisioningInv, CrashApi PROVE ProvisioningInv'
<1>0. \A h \in Requests : Owes(work[h]) \subseteq OwedBy(Requests)
  BY DEF OwedBy
<1>1. /\ api' = "down" /\ rebuild' = {} /\ faults < MaxFaults /\ faults' = faults + 1
      /\ lost' = lost \cup (OwedBy(Requests) \ validAddresses)
      /\ work' = [h \in Handlers |-> IF Request(h) THEN Idle ELSE work[h]]
      /\ UNCHANGED <<orders, owner, mailboxes, verified, validAddresses, catchAllDomains>>
  BY DEF CrashApi, Fault, tables, redis
<1>2. \A h \in Handlers : work'[h] = IF h \in Requests THEN Idle ELSE work[h]
  BY <1>1 DEF Requests
<1>3. Deliverable' = Deliverable /\ Deliverable \subseteq Addresses /\ mailboxes \subseteq Addresses
  BY <1>1, ProvisioningConstants DEF ProvisioningInv, Deliverable, Rows, RowTypes, Addresses
<1>4. \A h \in Handlers : Owes(work[h]) \subseteq Addresses
  <2> SUFFICES ASSUME NEW h \in Handlers PROVE Owes(work[h]) \subseteq Addresses
    OBVIOUS
  <2>1. work[h] \in JobType /\ JobOK(work[h])
    BY DEF ProvisioningInv
  <2>2. QED
    BY <1>3, <2>1, OwesCases DEF JobOK, JobType, Owes
<1>5. CacheTypes'
  <2>1. OwedBy(Requests) \subseteq Addresses
    BY <1>4 DEF OwedBy, Requests
  <2>2. QED
    BY <1>1, <2>1, ProvisioningConstants DEF ProvisioningInv, CacheTypes
<1>6. work' \in [Handlers -> JobType]
  BY <1>1, IdleOK DEF ProvisioningInv
<1>7. \A v : JobOK(v) => JobOK(v)'
  BY <1>1, <1>3 DEF JobOK
<1>8. \A h \in Handlers : JobOK(work[h])'
  BY <1>2, <1>7, IdleOK DEF ProvisioningInv
<1>9. \A g, h \in Handlers : g # h => Apart(work'[g], work'[h])
  <2>1. \A v : Apart(v, Idle) /\ Apart(Idle, v)
    BY IdleOK, FreeIsApart DEF LockingPcs
  <2>2. QED
    BY <1>2, <2>1 DEF ProvisioningInv
<1>10. NoSilentGap'
  <2>1. \A v : Owes(v)' = Owes(v)
    BY <1>1, <1>3 DEF Owes
  <2> SUFFICES ASSUME NEW a \in Deliverable, a \notin validAddresses, a \notin lost'
      PROVE  \E h \in Handlers : a \in Owes(work[h])'
    BY <1>1, <1>3 DEF NoSilentGap
  <2>0. a \notin validAddresses /\ a \notin lost'
    OBVIOUS
  <2>2. PICK h \in Handlers : a \in Owes(work[h])
    BY <1>1 DEF ProvisioningInv, NoSilentGap
  <2>3. h \notin Requests
    BY <1>0, <1>1, <2>0, <2>2
  <2>4. a \in Owes(work[h])'
    BY <1>2, <2>1, <2>2, <2>3
  <2>5. QED
    BY <2>4
<1>11. RowTypes' /\ OrdersAreWhole' /\ LegacyMailboxes \subseteq mailboxes'
       /\ rebuild' \subseteq Deliverable' /\ CacheIsNeverStale'
  BY <1>1, <1>3 DEF ProvisioningInv, RowTypes, OrdersAreWhole, CacheIsNeverStale
<1>12. QED
  BY <1>5, <1>6, <1>8, <1>9, <1>10, <1>11 DEF ProvisioningInv, Apart

-----------------------------------------------------------------------------
\* At the beginning everything deliverable is still to be published.
LEMMA InitInv == ASSUME Init PROVE ProvisioningInv
<1>1. /\ orders = {} /\ mailboxes = LegacyMailboxes /\ verified = Legacy /\ validAddresses = {}
      /\ catchAllDomains = {} /\ api = "down" /\ rebuild = {} /\ work = [h \in Handlers |-> Idle]
      /\ lost = LegacyMailboxes \cup LegacyAliases /\ faults = 0
      /\ owner = [d \in Domains |-> IF d \in Legacy THEN LegacyOwner[d] ELSE NoOne]
  BY DEF Init
<1>2. RowTypes /\ CacheTypes
  BY <1>1, ProvisioningConstants DEF RowTypes, CacheTypes, Addresses
<1>3. work \in [Handlers -> JobType] /\ \A h \in Handlers : JobOK(work[h])
  BY <1>1, IdleOK
<1>4. \A g, h \in Handlers : Apart(work[g], work[h])
  BY <1>1, IdleOK, FreeIsApart DEF LockingPcs
<1>5. OrdersAreWhole
  BY <1>1 DEF OrdersAreWhole
<1>6. CacheIsNeverStale /\ NoSilentGap
  BY <1>1 DEF CacheIsNeverStale, NoSilentGap, Deliverable, Rows
<1>7. QED
  BY <1>1, <1>2, <1>3, <1>4, <1>5, <1>6 DEF ProvisioningInv

\* Handlers know what the tables hold, uncommitted rows are of one transaction only, and
\* what is not published is owed or lost: the inductive invariant.
THEOREM ProvisioningInvariant == Spec => []ProvisioningInv
<1>1. Init => ProvisioningInv
  BY InitInv
<1>2. ProvisioningInv /\ [Next]_vars => ProvisioningInv'
  <2> SUFFICES ASSUME ProvisioningInv, [Next]_vars PROVE ProvisioningInv'
    OBVIOUS
  <2>1. CASE UNCHANGED vars
    <3>1. UNCHANGED <<orders, owner, mailboxes, verified, work>>
          /\ UNCHANGED <<validAddresses, catchAllDomains, api, rebuild, lost, faults>>
      BY <2>1 DEF vars, tables, redis
    <3>2. QED
      BY <3>1, CacheMoves DEF ProvisioningInv, CacheIsNeverStale, CacheTypes
  <2>2. CASE Boot \/ LoseRedis
    BY <2>2, BootInv
  <2>3. CASE CrashApi
    BY <2>3, CrashInv
  <2>4. ASSUME NEW h \in Handlers, ReceiveOrder(h) \/ ReceiveVerify(h) \/ RunScript(h)
        PROVE  ProvisioningInv'
    BY <2>4, ReceiveOrderInv, ReceiveVerifyInv, RunScriptInv
  <2>5. ASSUME NEW h \in Handlers,
               FindExistingOrder(h) \/ FindAgain(h) \/ RollBack(h) \/ AbortVictim(h)
        PROVE  ProvisioningInv'
    BY <2>5, FindInv
  <2>6. ASSUME NEW h \in Handlers, OwnedDomain(h) \/ LookupTxt(h) PROVE ProvisioningInv'
    BY <2>6, VerifyInv
  <2>7. ASSUME NEW h \in Handlers, ClaimKey(h) \/ InsertDomain(h) \/ InsertMailbox(h)
        PROVE  ProvisioningInv'
    BY <2>7, ClaimKeyInv, InsertDomainInv, InsertMailboxInv
  <2>8. ASSUME NEW h \in Handlers, CommitOrder(h) \/ CommitVerified(h) PROVE ProvisioningInv'
    BY <2>8, CommitOrderInv, CommitVerifiedInv
  <2>9. ASSUME NEW h \in Handlers, RereadVerified(h) \/ ReadRows(h) \/ Publish(h)
        PROVE  ProvisioningInv'
    BY <2>9, RereadInv, ReadRowsInv, PublishInv
  <2>10. ASSUME NEW h \in Handlers, PublishCatchAll(h) \/ GiveUp(h) PROVE ProvisioningInv'
    BY <2>10, EndInv
  <2>11. QED
    BY <2>1, <2>2, <2>3, <2>4, <2>5, <2>6, <2>7, <2>8, <2>9, <2>10 DEF Next, Step
<1>3. QED
  BY <1>1, <1>2, PTL DEF Spec

\* Every variable has its type, and an order that inserts mailboxes has one left to insert.
THEOREM ProvisioningTypes == Spec => []TypeOK
<1>1. ProvisioningInv => TypeOK
  BY DEF ProvisioningInv, RowTypes, CacheTypes, JobType, JobOK, TypeOK
<1>2. QED
  BY <1>1, ProvisioningInvariant, PTL

\* An order is in the tables with everything it asked for, or with nothing.
THEOREM OrdersWhole == Spec => []OrdersAreWhole
<1>1. ProvisioningInv => OrdersAreWhole
  BY DEF ProvisioningInv
<1>2. QED
  BY <1>1, ProvisioningInvariant, PTL

\* The receiver never accepts an address that does not exist or is not verified.
THEOREM CacheNeverStale == Spec => []CacheIsNeverStale
<1>1. ProvisioningInv => CacheIsNeverStale
  BY DEF ProvisioningInv
<1>2. QED
  BY <1>1, ProvisioningInvariant, PTL

\* No interleaving of orders and verifications leaves a deliverable address unpublished.
THEOREM NoGap == Spec => []NoSilentGap
<1>1. ProvisioningInv => NoSilentGap
  BY DEF ProvisioningInv
<1>2. QED
  BY <1>1, ProvisioningInvariant, PTL
=============================================================================

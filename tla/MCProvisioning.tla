--------------------------- MODULE MCProvisioning ---------------------------
(* The instance of Provisioning for TLC: a domain from before verification *)
(* with an alias and a catch-all, a name nobody has ordered yet, and two   *)
(* resellers, one of whom uses an Idempotency-Key of the other.            *)
EXTENDS Provisioning, TLC

CONSTANTS r1, r2, k1, k2, old, new, a, b

Order(r, k, d, l) == [reseller |-> r, key |-> k, domain |-> d, list |-> l]
\* Two orders for the same mailboxes, in another order and under keys of their own, which
\* can deadlock; a first key used by the second reseller; a body that is refused.
McOrders == {Order(r1, k1, old, <<a, b>>), Order(r1, k2, old, <<b, a>>), Order(r2, k1, new, <<a>>),
             Order(r1, k1, new, <<a, a>>)}
McLegacyOwner   == [d \in {old} |-> r1]
McLegacyAliases == {<<old, b>>}
=============================================================================

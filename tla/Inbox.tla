------------------------------- MODULE Inbox --------------------------------
(***************************************************************************)
(* What Nimbus promises the owner of a mailbox (docs/HLD.md 9.1 to 9.4):   *)
(* each accepted message is delivered at most once, to some of the         *)
(* mailboxes its recipients can reach and to all of those at once, and a   *)
(* delivered copy stays, whole, until its owner removes it.                *)
(***************************************************************************)
CONSTANTS
    Msgs, Mailboxes,
    Reach   \* Msgs -> the mailboxes its recipients can reach

VARIABLES
    done,   \* messages that have been processed
    inbox   \* pairs <<mailbox, message>> an owner can open, attachments included

Init == done = {} /\ inbox = {}

Deliver(m) ==
    /\ m \notin done
    /\ done' = done \cup {m}
    /\ \E to \in SUBSET Reach[m] : inbox' = inbox \cup {<<x, m>> : x \in to}

Remove(x, m) ==
    /\ <<x, m>> \in inbox
    /\ inbox' = inbox \ {<<x, m>>}
    /\ UNCHANGED done

Next ==
    \/ \E m \in Msgs : Deliver(m)
    \/ \E x \in Mailboxes, m \in Msgs : Remove(x, m)

Spec == Init /\ [][Next]_<<done, inbox>>
=============================================================================

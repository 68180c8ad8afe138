------------------------------- MODULE MCMail -------------------------------
(* The way of a mail outside the queue and the store: the SMTP session it   *)
(* comes in by, who gets it, the lists it appears in, the download of what  *)
(* it carries.  None of these looks at the variables of another, so each    *)
(* behaviour runs one of them, and the states add up instead of multiplying.*)
EXTENDS Session, Delivery, Reading, Download, TLC

CONSTANTS A, B, d1, d2, d3, d4, a, b, m1, m2

VARIABLE part
allVars == <<part, sessionVars, mailVars, readVars, getVars>>

-----------------------------------------------------------------------------
(* Delivery: two domains of A, one of B, one that is gone                  *)
McOwnerOf   == (d1 :> A) @@ (d2 :> A) @@ (d3 :> B) @@ (d4 :> Nobody)
McMailboxes == {<<d1, a>>, <<d2, a>>, <<d3, a>>}
\* An alias in the place of a mailbox, one in its own domain, one into a sibling domain, and
\* one into another tenant; a name that two domains use differently.
McAliases == {<<>>,
              (<<d1, a>> :> <<d2, a>>) @@ (<<d3, b>> :> <<d3, a>>),
              (<<d1, b>> :> <<d3, a>>) @@ (<<d3, b>> :> <<d3, a>>)}
McCatchAlls == {[d \in {d1, d2, d3, d4} |-> IF d = d1 THEN x ELSE Nobody] :
                    x \in {<<d2, a>>, <<d3, a>>, Nobody}}
Mail(to, id, of, at) == [to |-> to, id |-> id, reply |-> of, at |-> at]
\* A mail for both tenants and for nobody, and a reply to its Message-ID.
McEnvelopes ==
    {(m1 :> Mail(to, "i", Nobody, 1)) @@ (m2 :> Mail(more, "j", "i", 2)) :
        to \in {{<<d3, a>>, <<d4, a>>}, {<<d1, a>>, <<d1, b>>, <<d3, b>>}},
        more \in {{<<d1, b>>, <<d2, b>>, <<d3, a>>}}}

(* Reading: one's own mailbox 1, the team's 2, and 4 of another tenant      *)
McCopies  == {<<1, 1>>, <<1, 2>>, <<2, 2>>, <<4, 3>>}
McAt      == <<1, 1, 2>>
McTenant  == (1 :> A) @@ (2 :> A) @@ (4 :> B)
McMembers == {<<2, 1>>, <<4, 1>>}
McMatches == ("all" :> {1, 2, 3}) @@ ("some" :> {2, 3})

(* Download: nothing, one chunk, three of which two are the same            *)
McSizes   == ("x" :> 2) @@ ("y" :> 1)
McLayouts == {<<>>, <<"x">>, <<"x", "y", "x">>}

-----------------------------------------------------------------------------

McInit ==
    /\ part \in {"session", "delivery", "reading", "download"}
    /\ SessionInit /\ MailInit /\ ReadInit /\ GetInit
    /\ part # "delivery" => alias = <<>> /\ catchAll = (CHOOSE c \in CatchAlls : TRUE)
                            /\ envelope = (CHOOSE e \in Envelopes : TRUE)
    /\ part # "download" => layout = <<>>

McNext ==
    \/ part = "session"  /\ SessionNext /\ UNCHANGED <<part, mailVars, readVars, getVars>>
    \/ part = "delivery" /\ MailNext /\ UNCHANGED <<part, sessionVars, readVars, getVars>>
    \/ part = "reading"  /\ ReadNext /\ UNCHANGED <<part, sessionVars, mailVars, getVars>>
    \/ part = "download" /\ GetNext  /\ UNCHANGED <<part, sessionVars, mailVars, readVars>>

\* Kafka hands an event out until it is acknowledged.
McSpec ==
    /\ McInit /\ [][McNext]_allVars
    /\ \A w \in Workers :
        WF_allVars(part = "delivery" /\ Process(w)
                   /\ UNCHANGED <<part, sessionVars, readVars, getVars>>)
=============================================================================

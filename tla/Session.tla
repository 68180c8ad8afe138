------------------------------ MODULE Session ------------------------------
(***************************************************************************)
(* One SMTP connection: several mails after each other, with the envelope  *)
(* that smtp-receiver/session.go keeps between commands.  A sender may use *)
(* BDAT: the library then runs Data in a goroutine of its own, while the   *)
(* connection reads the next command, which may be RSET.  MailQueue takes  *)
(* from here that an event says of its mail what the sender was told.      *)
(***************************************************************************)
EXTENDS Integers, Sequences, Functions

CONSTANTS
    Senders, Receivers,     \* what MAIL FROM and RCPT TO may say
    Valid,                  \* those the address cache knows
    MaxTransfers,           \* bound: mails begun on the connection
    Unset                   \* Session.from after a reset

ASSUME SessionConstants ==
    Valid \subseteq Receivers /\ MaxTransfers \in Nat /\ Unset \notin Senders

VARIABLES
    sender, recipients,     \* Session.from, Session.recipients
    given,                  \* history: what the sender was told 250 for since the last reset
    transfer,               \* the transfer whose bytes the connection reads; 0: none
    data,                   \* calls of Data [pc, reader, from, to, given], by their number
    events                  \* published [transfer, from, to]

sessionVars == <<sender, recipients, given, transfer, data, events>>

NothingGiven == [from |-> Unset, to |-> {}]

SessionInit ==
    /\ sender = Unset /\ recipients = <<>> /\ given = NothingGiven
    /\ transfer = 0 /\ data = <<>> /\ events = {}

MailFrom(f) ==
    /\ transfer = 0
    /\ sender' = f /\ given' = [given EXCEPT !.from = f]
    /\ UNCHANGED <<recipients, transfer, data, events>>

\* Accepted: known, and Redis answered.  The other answers, 451 and 550, change nothing.
\* A repeated address is recorded once.
RcptTo(a) ==
    /\ transfer = 0 /\ given.from # Unset /\ a \in Valid
    /\ recipients' = IF a \in Range(recipients) THEN recipients ELSE Append(recipients, a)
    /\ given' = [given EXCEPT !.to = @ \cup {a}]
    /\ UNCHANGED <<sender, transfer, data, events>>

\* DATA, or the first BDAT: the library asks for a sender and a recipient.
BeginData ==
    /\ transfer = 0 /\ given.from # Unset /\ given.to # {}
    /\ Len(data) < MaxTransfers
    /\ transfer' = Len(data) + 1
    /\ data' = Append(data, [pc |-> "start", reader |-> "open", from |-> Unset, to |-> <<>>,
                             given |-> given])
    /\ UNCHANGED <<sender, recipients, given, events>>

\* The end of DATA, or BDAT LAST: from here the connection waits for Data's result.
LastChunk ==
    /\ transfer # 0 /\ data[transfer].reader = "open"
    /\ data' = [data EXCEPT ![transfer].reader = "eof"]
    /\ UNCHANGED <<sender, recipients, given, transfer, events>>

\* Mutant: the recipients stay.
KeptRecipients == recipients
NoRecipients   == <<>>
Reset ==
    /\ sender' = Unset /\ recipients' = NoRecipients
    /\ given' = NothingGiven /\ transfer' = 0

\* RSET between two commands or two chunks; the reader of an open transfer breaks.
ResetByClient ==
    /\ transfer # 0 => data[transfer].reader = "open"
    /\ data' = IF transfer = 0 THEN data ELSE [data EXCEPT ![transfer].reader = "broken"]
    /\ Reset
    /\ UNCHANGED events

\* Data takes its copy of the envelope under the lock.
Snapshot(k) ==
    /\ data[k].pc = "start"
    /\ data' = [data EXCEPT ![k].pc = "put", ![k].from = sender, ![k].to = recipients]
    /\ UNCHANGED <<sender, recipients, given, transfer, events>>

\* The upload ends with the body, or fails: a broken reader, S3, too many bytes.
\* Mutant: whatever has been read counts as the body.
AnyEnd(k)     == data[k].reader # "open"
WholeBody(k)  == data[k].reader = "eof"
PutBody(k) ==
    /\ data[k].pc = "put"
    /\ \/ WholeBody(k) /\ data' = [data EXCEPT ![k].pc = "publish"]
       \/ data' = [data EXCEPT ![k].pc = "done"]
    /\ UNCHANGED <<sender, recipients, given, transfer, events>>

\* An error may be a lost answer: the event may be there all the same.
PublishEvent(k) ==
    /\ data[k].pc = "publish"
    /\ data' = [data EXCEPT ![k].pc = "done"]
    /\ \/ events' = events \cup {[transfer |-> k, from |-> data[k].from, to |-> data[k].to]}
       \/ UNCHANGED events
    /\ UNCHANGED <<sender, recipients, given, transfer>>

\* The library answers the sender and resets the session for the next mail.
EndTransfer ==
    /\ transfer # 0 /\ data[transfer].pc = "done"
    /\ Reset
    /\ UNCHANGED <<data, events>>

SessionNext ==
    \/ \E f \in Senders : MailFrom(f)
    \/ \E a \in Receivers : RcptTo(a)
    \/ BeginData \/ LastChunk \/ ResetByClient \/ EndTransfer
    \/ \E k \in DOMAIN data : Snapshot(k) \/ PutBody(k) \/ PublishEvent(k)

SessionSpec == SessionInit /\ [][SessionNext]_sessionVars

-----------------------------------------------------------------------------
\* An event says of its mail what the sender was told: this sender, these recipients, each
\* once, for a body that came to its end; nothing of the mail before, and nothing of the
\* mail after, however RSET and Data overlap (session.go:183-186, 235-240, 318-319).
EventsNameTheirMail ==
    \A e \in events :
        LET d == data[e.transfer] IN
        /\ e.from = d.given.from /\ Range(e.to) = d.given.to
        /\ \A i, j \in DOMAIN e.to : e.to[i] = e.to[j] => i = j
        /\ d.reader = "eof"
=============================================================================

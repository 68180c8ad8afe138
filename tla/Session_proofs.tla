-------------------------- MODULE Session_proofs ---------------------------
(***************************************************************************)
(* Theorems about Session, for any senders, receivers and number of mails  *)
(* on a connection.                                                        *)
(***************************************************************************)
EXTENDS Session, TLAPS

Once(s)  == \A i, j \in DOMAIN s : s[i] = s[j] => i = j
Given    == [from : Senders \cup {Unset}, to : SUBSET Receivers]
DataType == [pc : {"start", "put", "publish", "done"}, reader : {"open", "eof", "broken"},
             from : Senders \cup {Unset}, to : Seq(Receivers), given : Given]

\* A call of Data has the envelope its sender was told, or a reader that will fail.
DataOK(d) ==
    /\ d.pc = "publish" => d.reader = "eof"
    /\ d.pc \in {"put", "publish"} /\ d.reader # "broken" =>
        d.from = d.given.from /\ Range(d.to) = d.given.to /\ Once(d.to)

\* The inductive invariant.  A transfer that the connection has left is broken or done.
SessionInv ==
    /\ sender \in Senders \cup {Unset} /\ recipients \in Seq(Receivers)
    /\ given \in Given /\ data \in Seq(DataType) /\ transfer \in 0..Len(data)
    /\ sender = given.from /\ Range(recipients) = given.to /\ Once(recipients)
    /\ transfer # 0 => data[transfer].reader # "broken" /\ data[transfer].given = given
    /\ \A k \in DOMAIN data :
        DataOK(data[k]) /\ (k # transfer => data[k].reader = "broken" \/ data[k].pc = "done")
    /\ \A e \in events :
        /\ e.transfer \in DOMAIN data /\ data[e.transfer].pc = "done"
        /\ data[e.transfer].reader = "eof"
        /\ e.from = data[e.transfer].given.from /\ Range(e.to) = data[e.transfer].given.to
        /\ Once(e.to)

-----------------------------------------------------------------------------
\* One call of Data changes; what it was told and its finished ones stay.
LEMMA DataMoves ==
    ASSUME SessionInv, NEW k \in DOMAIN data, NEW new \in DataType, DataOK(new),
           data' = [data EXCEPT ![k] = new], data[k].pc # "done",
           new.given = data[k].given, new.reader = data[k].reader,
           UNCHANGED <<sender, recipients, given, transfer>>,
           \A e \in events' \ events :
                /\ e.transfer = k /\ new.pc = "done" /\ new.reader = "eof"
                /\ e.from = new.given.from /\ Range(e.to) = new.given.to /\ Once(e.to)
    PROVE  SessionInv'
<1>1. data' \in Seq(DataType) /\ DOMAIN data' = DOMAIN data /\ Len(data') = Len(data)
  BY DEF SessionInv
<1>2. \A i \in DOMAIN data : data'[i] = IF i = k THEN new ELSE data[i]
  BY DEF SessionInv
<1>3. k \in 1..Len(data)
  BY DEF SessionInv
<1>4. transfer # 0 => data'[transfer].reader # "broken" /\ data'[transfer].given = given
  BY <1>2, <1>3 DEF SessionInv
<1>5. \A i \in DOMAIN data' :
        DataOK(data'[i]) /\ (i # transfer => data'[i].reader = "broken" \/ data'[i].pc = "done")
  BY <1>1, <1>2 DEF SessionInv
<1>6. \A e \in events' :
        /\ e.transfer \in DOMAIN data' /\ data'[e.transfer].pc = "done"
        /\ data'[e.transfer].reader = "eof"
        /\ e.from = data'[e.transfer].given.from /\ Range(e.to) = data'[e.transfer].given.to
        /\ Once(e.to)
  BY <1>1, <1>2 DEF SessionInv
<1>7. QED
  BY <1>1, <1>4, <1>5, <1>6 DEF SessionInv, DataOK, Range, Once

\* Data copies the envelope it was started for, unless its reader is broken.
LEMMA SnapshotInv == ASSUME SessionInv, NEW k \in DOMAIN data, Snapshot(k) PROVE SessionInv'
<1> DEFINE new == [data[k] EXCEPT !.pc = "put", !.from = sender, !.to = recipients]
<1>1. data[k] \in DataType
  BY DEF SessionInv
<1>2. data' = [data EXCEPT ![k] = new]
  BY DEF Snapshot
<1>3. new \in DataType /\ new.given = data[k].given /\ new.reader = data[k].reader
  BY <1>1 DEF DataType, SessionInv
<1>4. new.pc = "put" /\ new.from = sender /\ new.to = recipients
  BY <1>1 DEF DataType
<1>5. new.reader # "broken" => k = transfer /\ new.given = given
  BY <1>3 DEF SessionInv, Snapshot
<1>6. DataOK(new)
  <2>1. k = transfer => k # 0
    BY DEF SessionInv
  <2>2. QED
    BY <1>4, <1>5 DEF DataOK, SessionInv
<1> HIDE DEF new
<1>7. QED
  BY <1>2, <1>3, <1>6, DataMoves DEF Snapshot

\* Only a body that came to its end is published.
LEMMA PutBodyInv == ASSUME SessionInv, NEW k \in DOMAIN data, PutBody(k) PROVE SessionInv'
<1>1. data[k] \in DataType /\ DataOK(data[k])
  BY DEF SessionInv
<1>2. ASSUME NEW p \in {"publish", "done"}, p = "publish" => data[k].reader = "eof",
             data' = [data EXCEPT ![k].pc = p]
      PROVE  SessionInv'
  <2> DEFINE new == [data[k] EXCEPT !.pc = p]
  <2>1. data' = [data EXCEPT ![k] = new]
    BY <1>2
  <2>2. /\ new \in DataType /\ new.given = data[k].given /\ new.reader = data[k].reader
        /\ new.pc = p /\ new.from = data[k].from /\ new.to = data[k].to
    BY <1>1, <1>2 DEF DataType
  <2>3. DataOK(new)
    BY <1>1, <1>2, <2>2 DEF DataOK, PutBody
  <2> HIDE DEF new
  <2>4. QED
    BY <2>1, <2>2, <2>3, DataMoves DEF PutBody
<1>3. QED
  BY <1>2 DEF PutBody, WholeBody

\* An event is what Data copied.
LEMMA PublishEventInv == ASSUME SessionInv, NEW k \in DOMAIN data, PublishEvent(k) PROVE SessionInv'
<1> DEFINE new == [data[k] EXCEPT !.pc = "done"]
<1>1. data[k] \in DataType /\ DataOK(data[k])
  BY DEF SessionInv
<1>2. data' = [data EXCEPT ![k] = new]
  BY DEF PublishEvent
<1>3. /\ new \in DataType /\ new.given = data[k].given /\ new.reader = data[k].reader
      /\ new.pc = "done"
  BY <1>1 DEF DataType
<1>4. DataOK(new)
  BY <1>3 DEF DataOK
<1> HIDE DEF new
<1>5. ASSUME NEW e \in events' \ events
      PROVE  /\ e.transfer = k /\ new.pc = "done" /\ new.reader = "eof"
             /\ e.from = new.given.from /\ Range(e.to) = new.given.to /\ Once(e.to)
  <2>1. e = [transfer |-> k, from |-> data[k].from, to |-> data[k].to]
    BY <1>5 DEF PublishEvent
  <2>2. data[k].pc = "publish"
    BY DEF PublishEvent
  <2>3. QED
    BY <1>1, <1>3, <2>1, <2>2 DEF DataOK
<1>6. QED
  BY <1>2, <1>3, <1>4, <1>5, DataMoves DEF PublishEvent

-----------------------------------------------------------------------------
\* Between transfers the envelope and what the sender was told change together.
LEMMA MailFromInv == ASSUME SessionInv, NEW f \in Senders, MailFrom(f) PROVE SessionInv'
<1>1. given' \in Given /\ given'.from = f /\ given'.to = given.to
  BY DEF SessionInv, MailFrom, Given
<1>2. QED
  BY <1>1 DEF SessionInv, MailFrom, DataOK, Range, Once

\* Appending an address that is not there keeps each address once.
LEMMA OneMore ==
    ASSUME NEW s \in Seq(Receivers), NEW a \in Receivers, a \notin Range(s), Once(s)
    PROVE  Range(Append(s, a)) = Range(s) \cup {a} /\ Once(Append(s, a))
<1> DEFINE t == Append(s, a)
<1>1. /\ DOMAIN t = 1..(Len(s) + 1) /\ DOMAIN s = 1..Len(s) /\ Len(s) \in Nat
      /\ \A i \in DOMAIN s : t[i] = s[i]
      /\ t[Len(s) + 1] = a
  OBVIOUS
<1> HIDE DEF t
<1>2. Range(t) = Range(s) \cup {a}
  <2>1. \A x \in Range(t) : x \in Range(s) \cup {a}
    BY <1>1 DEF Range
  <2>2. \A x \in Range(s) : x \in Range(t)
    BY <1>1 DEF Range
  <2>3. a \in Range(t)
    BY <1>1 DEF Range
  <2>4. QED
    BY <2>1, <2>2, <2>3
<1>3. Once(t)
  <2> SUFFICES ASSUME NEW i \in DOMAIN t, NEW j \in DOMAIN t, t[i] = t[j] PROVE i = j
    BY DEF Once
  <2>1. \A n \in DOMAIN s : t[n] # a
    BY <1>1 DEF Range
  <2>2. CASE i \in DOMAIN s /\ j \in DOMAIN s
    BY <1>1, <2>2 DEF Once
  <2>3. CASE i \notin DOMAIN s \/ j \notin DOMAIN s
    BY <1>1, <2>1, <2>3
  <2>4. QED
    BY <2>2, <2>3
<1>4. QED
  BY <1>2, <1>3 DEF t

\* A recipient is recorded once.
LEMMA RcptToInv == ASSUME SessionInv, NEW a \in Receivers, RcptTo(a) PROVE SessionInv'
<1>1. given' \in Given /\ given'.from = given.from /\ given'.to = given.to \cup {a}
  BY DEF SessionInv, RcptTo, Given
<1>2. recipients' \in Seq(Receivers) /\ Range(recipients') = given'.to /\ Once(recipients')
  <2>1. recipients \in Seq(Receivers) /\ Range(recipients) = given.to /\ Once(recipients)
    BY DEF SessionInv
  <2>2. CASE a \in Range(recipients)
    BY <1>1, <2>1, <2>2 DEF RcptTo
  <2>3. CASE a \notin Range(recipients)
    BY <1>1, <2>1, <2>3, OneMore DEF RcptTo
  <2>4. QED
    BY <2>2, <2>3
<1>3. UNCHANGED <<sender, transfer, data, events>> /\ transfer = 0
  BY DEF RcptTo
<1> QED
  BY <1>1, <1>2, <1>3 DEF SessionInv, DataOK, Range, Once

\* A transfer begins with the envelope the sender was told.
LEMMA BeginDataInv == ASSUME SessionInv, BeginData PROVE SessionInv'
<1> DEFINE new == [pc |-> "start", reader |-> "open", from |-> Unset, to |-> <<>>, given |-> given]
<1>1. new \in DataType /\ DataOK(new)
  BY DEF SessionInv, DataType, DataOK
<1>2. /\ data' \in Seq(DataType) /\ Len(data') = Len(data) + 1 /\ Len(data) \in Nat
      /\ DOMAIN data' = 1..(Len(data) + 1) /\ DOMAIN data = 1..Len(data)
      /\ \A i \in DOMAIN data : data'[i] = data[i]
      /\ data'[Len(data) + 1] = new
  BY <1>1 DEF BeginData, SessionInv
<1>3. new.reader = "open" /\ new.given = given
  OBVIOUS
<1> HIDE DEF new
<1>4. UNCHANGED <<sender, recipients, given, events>> /\ transfer = 0 /\ transfer' = Len(data) + 1
  BY DEF BeginData
<1>5. \A i \in DOMAIN data' :
        DataOK(data'[i]) /\ (i # transfer' => data'[i].reader = "broken" \/ data'[i].pc = "done")
  BY <1>1, <1>2, <1>4 DEF SessionInv
<1>6. \A e \in events' :
        /\ e.transfer \in DOMAIN data' /\ data'[e.transfer] = data[e.transfer]
  BY <1>2, <1>4 DEF SessionInv
<1>7. transfer' \in 0..Len(data') /\ data'[transfer'].reader # "broken"
      /\ data'[transfer'].given = given'
  BY <1>2, <1>3, <1>4
<1>8. QED
  BY <1>2, <1>4, <1>5, <1>6, <1>7 DEF SessionInv, DataOK, Range, Once

\* The reader of the open transfer ends or breaks; Data itself does not move.
LEMMA ReaderMoves ==
    ASSUME SessionInv, transfer # 0, data[transfer].reader = "open", NEW r \in {"eof", "broken"},
           data' = [data EXCEPT ![transfer].reader = r], UNCHANGED events
    PROVE  /\ data' \in Seq(DataType) /\ Len(data') = Len(data) /\ DOMAIN data' = DOMAIN data
           /\ \A k \in DOMAIN data' :
                DataOK(data'[k]) /\ (k # transfer => data'[k].reader = "broken" \/ data'[k].pc = "done")
           /\ data'[transfer].reader = r /\ data'[transfer].given = given
           /\ \A e \in events' : e.transfer \in DOMAIN data' /\ data'[e.transfer] = data[e.transfer]
<1> DEFINE new == [data[transfer] EXCEPT !.reader = r]
<1>1. /\ transfer \in DOMAIN data /\ data[transfer] \in DataType /\ DataOK(data[transfer])
      /\ data[transfer].given = given
  BY DEF SessionInv
<1>2. new \in DataType /\ new.reader = r /\ new.pc = data[transfer].pc
      /\ new.from = data[transfer].from /\ new.to = data[transfer].to /\ new.given = given
  BY <1>1 DEF DataType
<1>3. DataOK(new)
  BY <1>1, <1>2 DEF DataOK
<1>4. data' = [data EXCEPT ![transfer] = new]
  OBVIOUS
<1> HIDE DEF new
<1>5. data' \in Seq(DataType) /\ Len(data') = Len(data) /\ DOMAIN data' = DOMAIN data
      /\ \A i \in DOMAIN data : data'[i] = IF i = transfer THEN new ELSE data[i]
  <2>1. data \in Seq(DataType) /\ transfer \in DOMAIN data /\ new \in DataType
    BY <1>1, <1>2 DEF SessionInv
  <2>2. QED
    BY <1>4, <2>1
<1>6. \A e \in events' : e.transfer \in DOMAIN data' /\ data'[e.transfer] = data[e.transfer]
  <2>1. \A e \in events : e.transfer \in DOMAIN data /\ e.transfer # transfer
    BY DEF SessionInv
  <2>2. QED
    BY <1>5, <2>1
<1>7. \A k \in DOMAIN data' :
        DataOK(data'[k]) /\ (k # transfer => data'[k].reader = "broken" \/ data'[k].pc = "done")
  BY <1>3, <1>5 DEF SessionInv
<1>8. QED
  BY <1>1, <1>2, <1>5, <1>6, <1>7

LEMMA LastChunkInv == ASSUME SessionInv, LastChunk PROVE SessionInv'
<1>1. /\ transfer # 0 /\ data[transfer].reader = "open"
      /\ data' = [data EXCEPT ![transfer].reader = "eof"]
      /\ UNCHANGED <<sender, recipients, given, transfer, events>>
  BY DEF LastChunk
<1>2. /\ data' \in Seq(DataType) /\ Len(data') = Len(data) /\ DOMAIN data' = DOMAIN data
      /\ \A k \in DOMAIN data' :
           DataOK(data'[k]) /\ (k # transfer => data'[k].reader = "broken" \/ data'[k].pc = "done")
      /\ data'[transfer].reader = "eof" /\ data'[transfer].given = given
      /\ \A e \in events' : e.transfer \in DOMAIN data' /\ data'[e.transfer] = data[e.transfer]
  BY <1>1, ReaderMoves
<1>3. QED
  BY <1>1, <1>2 DEF SessionInv, Range, Once

\* After a reset nothing is given, and nothing is left of the envelope.
LEMMA ResetEnvelope ==
    ASSUME Reset
    PROVE  /\ sender' \in Senders \cup {Unset} /\ recipients' \in Seq(Receivers)
           /\ given' \in Given /\ transfer' = 0
           /\ sender' = given'.from /\ Range(recipients') = given'.to /\ Once(recipients')
  BY DEF Reset, NoRecipients, NothingGiven, Given, Range, Once

LEMMA ResetByClientInv == ASSUME SessionInv, ResetByClient PROVE SessionInv'
<1>1. Reset /\ UNCHANGED events
  BY DEF ResetByClient
<1>2. /\ data' \in Seq(DataType) /\ DOMAIN data' = DOMAIN data
      /\ \A k \in DOMAIN data' : DataOK(data'[k]) /\ (data'[k].reader = "broken" \/ data'[k].pc = "done")
      /\ \A e \in events' : e.transfer \in DOMAIN data' /\ data'[e.transfer] = data[e.transfer]
  <2>1. CASE transfer = 0
    BY <1>1, <2>1 DEF ResetByClient, SessionInv
  <2>2. CASE transfer # 0
    <3>1. data[transfer].reader = "open" /\ data' = [data EXCEPT ![transfer].reader = "broken"]
      BY <2>2 DEF ResetByClient
    <3>2. QED
      BY <1>1, <2>2, <3>1, ReaderMoves
  <2>3. QED
    BY <2>1, <2>2
<1>3. transfer' \in 0..Len(data')
  BY <1>1, <1>2, ResetEnvelope
<1>4. QED
  BY <1>1, <1>2, <1>3, ResetEnvelope DEF SessionInv, DataOK, Range, Once

LEMMA EndTransferInv == ASSUME SessionInv, EndTransfer PROVE SessionInv'
<1>1. Reset /\ UNCHANGED <<data, events>> /\ data[transfer].pc = "done"
  BY DEF EndTransfer
<1>2. QED
  BY <1>1, ResetEnvelope DEF SessionInv, DataOK, Range, Once

-----------------------------------------------------------------------------
\* The envelope always says what the sender was told, and a call of Data that was overtaken
\* by a reset has a reader that fails: the inductive invariant.
THEOREM SessionInvariant == SessionSpec => []SessionInv
<1>1. SessionInit => SessionInv
  BY DEF SessionInit, SessionInv, NothingGiven, Given, Range, Once
<1>2. SessionInv /\ [SessionNext]_sessionVars => SessionInv'
  <2> SUFFICES ASSUME SessionInv, [SessionNext]_sessionVars PROVE SessionInv'
    OBVIOUS
  <2>1. ASSUME NEW f \in Senders, MailFrom(f) PROVE SessionInv'
    BY <2>1, MailFromInv
  <2>2. ASSUME NEW a \in Receivers, RcptTo(a) PROVE SessionInv'
    BY <2>2, RcptToInv
  <2>3. CASE BeginData
    BY <2>3, BeginDataInv
  <2>4. CASE LastChunk
    BY <2>4, LastChunkInv
  <2>5. CASE ResetByClient
    BY <2>5, ResetByClientInv
  <2>6. CASE EndTransfer
    BY <2>6, EndTransferInv
  <2>7. ASSUME NEW k \in DOMAIN data, Snapshot(k) PROVE SessionInv'
    BY <2>7, SnapshotInv
  <2>8. ASSUME NEW k \in DOMAIN data, PutBody(k) PROVE SessionInv'
    BY <2>8, PutBodyInv
  <2>9. ASSUME NEW k \in DOMAIN data, PublishEvent(k) PROVE SessionInv'
    BY <2>9, PublishEventInv
  <2>10. CASE UNCHANGED sessionVars
    BY <2>10 DEF sessionVars, SessionInv, DataOK, Range, Once
  <2>11. QED
    BY <2>1, <2>2, <2>3, <2>4, <2>5, <2>6, <2>7, <2>8, <2>9, <2>10 DEF SessionNext
<1>3. QED
  BY <1>1, <1>2, PTL DEF SessionSpec

\* Whatever a sender interleaves with its transfers, an event carries the sender and the
\* recipients that were accepted for it, and a whole body.
THEOREM EventsAreTrue == SessionSpec => []EventsNameTheirMail
<1>1. SessionInv => EventsNameTheirMail
  BY DEF SessionInv, EventsNameTheirMail, Range, Once
<1>2. QED
  BY <1>1, SessionInvariant, PTL
=============================================================================

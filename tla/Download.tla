------------------------------ MODULE Download ------------------------------
(***************************************************************************)
(* The download of an attachment, cut off and resumed: the handler         *)
(* download_attachment (api/routers/messages.py), the arithmetic of byte   *)
(* ranges over chunks (api/ranges.py) and the read of a slice              *)
(* (storage.py), against the bytes a single range stands for.              *)
(*                                                                         *)
(* A byte is <<chunk, offset>>: two places of a file that hold one chunk   *)
(* hold the same bytes.  Positions count from 0, as in the headers.        *)
(***************************************************************************)
EXTENDS Integers, Sequences, SequencesExt

CONSTANTS
    SizeOf,             \* chunk -> its size
    Layouts,            \* files, as the chunks that blob_chunk lists in the order of seq
    Numbers,            \* what a header may ask for
    MaxBreaks,          \* bound: connections that break
    Absent              \* no last byte in a header

ASSUME DownloadConstants ==
    /\ SizeOf \in [DOMAIN SizeOf -> Nat \ {0}]
    /\ Layouts \subseteq Seq(DOMAIN SizeOf)
    /\ Numbers \subseteq Nat /\ Absent \notin Nat /\ MaxBreaks \in Nat

\* Headers: bytes=first-last, bytes=first-, bytes=-n; none, or one that is no single range.
Headers ==
    [form : {"first"}, first : Numbers, last : Numbers \cup {Absent}]
    \cup [form : {"suffix"}, n : Numbers] \cup [form : {"none", "malformed"}]
From(n) == [form |-> "first", first |-> n, last |-> Absent]

VARIABLES
    layout,             \* the file
    shared,             \* the reader has a copy of the message
    asked,              \* the header of the request that is being answered
    reply,              \* status and headers: [status, start, length, total]
    reads,              \* what the body will still read: [chunk, offset, length]
    body,               \* what it has sent
    have, complete,     \* what the client holds, and whether it takes it for the file
    breaks

getVars == <<layout, shared, asked, reply, reads, body, have, complete, breaks>>

NoReply == [status |-> 0, start |-> 0, length |-> 0, total |-> 0]

GetInit ==
    /\ layout \in Layouts /\ shared = TRUE
    /\ asked = [form |-> "none"] /\ reply = NoReply /\ reads = <<>> /\ body = <<>>
    /\ have = <<>> /\ complete = FALSE /\ breaks = 0

-----------------------------------------------------------------------------
Least(i, j)    == IF i < j THEN i ELSE j
Greatest(i, j) == IF i < j THEN j ELSE i

\* The numbers of S in their order.
Ascending(S) == [k \in 1..Cardinality(S) |-> CHOOSE i \in S : Cardinality({j \in S : j < i}) = k - 1]

\* Where chunk i begins; the file ends where chunk Len + 1 would begin.
Begins(chunks) ==
    LET begin[i \in 1..Len(chunks) + 1] == IF i = 1 THEN 0 ELSE begin[i-1] + SizeOf[chunks[i-1]]
    IN begin
Total(chunks) == Begins(chunks)[Len(chunks) + 1]

Everything    == [kind |-> "all"]
Unsatisfiable == [kind |-> "416"]
Window(s, e)  == [kind |-> "window", start |-> s, end |-> e]

\* ranges.parse: everything, 416, or a window (both ends inclusive).  A range that begins
\* behind the end is found before its other end is looked at: bytes=<total>- would seem to
\* run backwards.
\* Mutant: the other way round.
ParseBackwardsFirst(h, total) ==
    IF h.form # "first" \/ total = 0 THEN Everything
    ELSE LET end == IF h.last = Absent THEN total - 1 ELSE h.last IN
         IF end < h.first THEN Everything
         ELSE IF h.first >= total THEN Unsatisfiable
         ELSE Window(h.first, Least(end, total - 1))
Parse(h, total) ==
    CASE total = 0 \/ h.form \in {"none", "malformed"} -> Everything
      [] total > 0 /\ h.form = "suffix" ->
            IF h.n = 0 THEN Everything ELSE Window(Greatest(0, total - h.n), total - 1)
      [] total > 0 /\ h.form = "first" ->
            LET end == IF h.last = Absent THEN total - 1 ELSE h.last IN
            IF h.first >= total THEN Unsatisfiable
            ELSE IF end < h.first THEN Everything
            ELSE Window(h.first, Least(end, total - 1))

\* ranges.slice_chunks: the chunks that reach into the window, and how much of each.
\* Mutant: the last byte of each is left out.
LengthExclusive(offset, last) == last - offset
LengthOf(offset, last)        == last - offset + 1
SliceChunks(chunks, start, end) ==
    LET begin == Begins(chunks)
        reach == {i \in DOMAIN chunks : begin[i + 1] - 1 >= start /\ begin[i] <= end}
        slice(i) ==
            LET offset == Greatest(0, start - begin[i])
                last   == Least(SizeOf[chunks[i]] - 1, end - begin[i])
            IN [chunk |-> chunks[i], offset |-> offset, length |-> LengthOf(offset, last)]
    IN [k \in 1..Cardinality(reach) |-> slice(Ascending(reach)[k])]

\* storage.get_chunk: S3 serves bytes=offset-(offset + length - 1) of the object.
GetChunk(r) ==
    [k \in 1..Least(r.length, SizeOf[r.chunk] - r.offset) |-> <<r.chunk, r.offset + k - 1>>]

\* download_attachment, up to the first byte of the body.
Answered == reply.status # 0
Answer(h, cached) ==
    LET total  == Total(layout)
        parsed == Parse(h, total)
        s      == IF parsed.kind = "window" THEN parsed.start ELSE 0
        e      == IF parsed.kind = "window" THEN parsed.end ELSE total - 1
        status == CASE ~shared -> 404
                    [] shared /\ cached -> 304
                    [] shared /\ ~cached /\ parsed = Unsatisfiable -> 416
                    [] shared /\ ~cached /\ parsed.kind = "window" -> 206
                    [] OTHER -> 200
    IN IF status \in {200, 206}
       THEN /\ reply' = [status |-> status, start |-> s, length |-> e - s + 1, total |-> total]
            /\ reads' = SliceChunks(layout, s, e)
       ELSE /\ reply' = [NoReply EXCEPT !.status = status, !.total = IF status = 416 THEN total ELSE 0]
            /\ reads' = <<>>

\* A client fetches the rest of what it has, looks at any part of the file, or asks
\* whether the file it has is still good.
GetAttachment ==
    /\ ~Answered
    /\ \E h \in Headers \cup {From(Len(have))}, cached \in {FALSE, complete} :
        asked' = h /\ Answer(h, cached)
    /\ body' = <<>>
    /\ UNCHANGED <<layout, shared, have, complete, breaks>>

\* One slice after the other; the session with the database is closed by then.
SendChunk ==
    /\ Answered /\ reads # <<>>
    /\ body' = body \o GetChunk(Head(reads))
    /\ reads' = Tail(reads)
    /\ UNCHANGED <<layout, shared, asked, reply, have, complete, breaks>>

\* The last copy the reader could see is deleted; a body that is under way runs on.
LoseCopy ==
    /\ shared /\ shared' = FALSE
    /\ UNCHANGED <<layout, asked, reply, reads, body, have, complete, breaks>>

-----------------------------------------------------------------------------
(* A client that resumes                                                   *)

Over == reply' = NoReply /\ reads' = <<>> /\ body' = <<>> /\ UNCHANGED <<layout, shared, asked>>

\* What it has after n bytes of the body: a 200 begins anew, a 206 that fits goes on, and
\* any other is a look at some part of the file.
Anew    == reply.status = 200 /\ ~complete
Fits    == reply.status = 206 /\ ~complete /\ reply.start = Len(have)
Keep(n) ==
    have' = IF Anew THEN SubSeq(body, 1, n)
            ELSE IF Fits THEN have \o SubSeq(body, 1, n) ELSE have

\* All of Content-Length has arrived, or there is no body.
Finish ==
    /\ Answered /\ reads = <<>>
    /\ Keep(Len(body))
    /\ complete' = \/ complete
                   \/ Anew /\ Len(body) = reply.length
                   \/ Fits /\ Len(have') = reply.total
                   \/ reply.status = 416 /\ Len(have) = reply.total
    /\ Over /\ UNCHANGED breaks

\* The connection breaks, with any part of what was sent received.
Break ==
    /\ Answered /\ breaks < MaxBreaks /\ breaks' = breaks + 1
    /\ \E n \in 0..Len(body) : Keep(n)
    /\ Over /\ UNCHANGED complete

GetNext == GetAttachment \/ SendChunk \/ LoseCopy \/ Finish \/ Break
GetSpec == GetInit /\ [][GetNext]_getVars

-----------------------------------------------------------------------------
(* What a range stands for, byte by byte: as in RFC 7233, but for a range  *)
(* whose ends are swapped behind the end of the file (Behind), where the   *)
(* order of the checks in ranges.py decides.                               *)

File == FoldLeft(LAMBDA bytes, c : bytes \o [k \in 1..SizeOf[c] |-> <<c, k - 1>>], <<>>, layout)

Behind(h)  == h.form = "first" /\ Len(File) > 0 /\ h.first >= Len(File)
Ignored(h) ==
    \/ h.form \in {"none", "malformed"} \/ Len(File) = 0
    \/ h.form = "suffix" /\ h.n = 0
    \/ h.form = "first" /\ h.last # Absent /\ h.last < h.first
InRange(h, p) ==
    \/ Ignored(h)
    \/ h.form = "suffix" /\ p >= Len(File) - h.n
    \/ h.form = "first" /\ p >= h.first /\ (h.last = Absent \/ p <= h.last)
Wanted(h) ==
    LET in == {p \in 0..Len(File) - 1 : InRange(h, p)} IN
    [k \in 1..Cardinality(in) |-> File[Ascending(in)[k] + 1]]

\* The reply announces the bytes that were asked for, and the body sends these and no
\* others, wherever the range cuts the chunks; a client that asks for what lies behind the
\* end learns the length instead (ranges.py:3-9, 56-59, 74-75).
ReplyIsTheRange ==
    CASE reply.status \in {200, 206} ->
            /\ ~Behind(asked) /\ (reply.status = 206 <=> ~Ignored(asked))
            /\ reply.length = Len(Wanted(asked))
            /\ IsPrefix(body, Wanted(asked))
            /\ reads = <<>> => body = Wanted(asked)
      [] reply.status = 416 -> Behind(asked) /\ reply.total = Len(File)
      [] OTHER -> body = <<>>

\* What a client has put together over breaks and resumed ranges is the beginning of the
\* file, and the file when it takes it for complete (messages.py:396-401).
DownloadIsTheFile == IsPrefix(have, File) /\ (complete => have = File)
=============================================================================

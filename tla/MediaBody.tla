------------------------------ MODULE MediaBody ------------------------------
(***************************************************************************)
(* One /stream connection and the response it is given, for each kind of   *)
(* source: a local file, a file on an SMB share, a URL that is proxied,    *)
(* and the live screen (src/media/server.rs, range.rs, local_file.rs,      *)
(* smb_source.rs, url_proxy.rs, flush.rs).  LiveStream has the switching   *)
(* between sources; here a switch is the end of the connection.            *)
(*                                                                         *)
(* A byte of a resource is its offset.  A response head counts as one unit *)
(* in the buffer of the BufWriter, as one byte of the body does.           *)
(***************************************************************************)
EXTENDS Naturals, Sequences, FiniteSetsExt

CONSTANTS
    MaxSize,      \* bound on the bytes of a resource
    MaxResizes,   \* bound on how often a file changes while it is served
    Chunk,        \* CHUNK_SIZE, READ_CHUNK; largest chunk of a stream
    Cap,          \* capacity of the BufWriter
    FlushBytes,   \* FLUSH_BYTES, LIVE_FLUSH_BYTES
    Nothing

Sizes == 0..MaxSize
Kinds == {"File", "Smb", "Url", "Live"}

\* The Range header: absent, one of another unit or with several ranges,
\* one that does not parse, "a-", "a-b" and "-n".
Ranges == [form : {"Absent", "Ignored", "Malformed"}]
          \cup [form : {"From"}, a : 0..MaxSize + 1]
          \cup [form : {"FromTo"}, a : Sizes, b : Sizes]
          \cup [form : {"Suffix"}, n : 0..MaxSize + 1]

\* The head of a response: its status, the size of the resource, and which
\* bytes of it follow, if that is said.
ResponseHead ==
    [status : {"OK", "Partial", "Unsatisfiable", "Stream", "Refused", "Failed", "Busy"},
     size : Nat, first : Nat, length : Nat \cup {Nothing}]

ASSUME MediaBodyAssumption ==
    /\ {MaxSize, MaxResizes, Chunk, Cap, FlushBytes} \subseteq Nat
    /\ Chunk > 0 /\ Cap > 0 /\ Nothing \notin Nat \cup ResponseHead

VARIABLES
    kind, headOnly, range,   \* the request; Nothing before it is read
    serving,                 \* where the task is
    size, resizes, shrunk,   \* the resource; whether it shrank since the head
    reply,                   \* the ResponseHead, when it has been written
    left, offset,            \* bytes still to copy, and from where
    body,                    \* the bytes given to the writer ...
    wire,                    \* ... and how much of head and body has left it
    pending,                 \* FlushTracker.bytes_since_flush
    handle                   \* the SMB file handle

request  == <<kind, headOnly, range>>
resource == <<size, resizes, shrunk>>
bodyVars == <<request, serving, resource, reply, left, offset, body, wire, pending, handle>>

BodyInit ==
    /\ kind = Nothing /\ headOnly = FALSE /\ range = Nothing
    /\ serving = "Wait" /\ size \in Sizes /\ resizes = 0 /\ shrunk = FALSE
    /\ reply = Nothing /\ left = 0 /\ offset = 0
    /\ body = <<>> /\ wire = 0 /\ pending = 0 /\ handle = "None"

-----------------------------------------------------------------------------
(* range.rs.                                                               *)

Full          == [status |-> "OK", size |-> size, first |-> 0, length |-> size]
Unsatisfiable == [status |-> "Unsatisfiable", size |-> size, first |-> 0, length |-> 0]
Partial(a, b) == [status |-> "Partial", size |-> size, first |-> a, length |-> b - a + 1]

ParseSingleRange(r) ==
    CASE r.form = "Suffix" -> IF r.n = 0 \/ size = 0 THEN Unsatisfiable
                              ELSE Partial(IF r.n >= size THEN 0 ELSE size - r.n, size - 1)
      [] r.form = "From"   -> IF r.a >= size THEN Unsatisfiable ELSE Partial(r.a, size - 1)
      [] r.form = "FromTo" -> IF r.a > r.b \/ r.a >= size THEN Unsatisfiable
                              ELSE Partial(r.a, Min({r.b, size - 1}))

ParseRange(r) ==
    CASE r.form \in {"Absent", "Ignored"} -> Full
      [] r.form = "Malformed"             -> Unsatisfiable
      [] OTHER                            -> ParseSingleRange(r)

-----------------------------------------------------------------------------
(* The BufWriter (tokio) and the flush tracker.                            *)

Written == Len(body) + (IF reply = Nothing THEN 0 ELSE 1)

\* What has left the buffer once n more units are written: it is emptied when
\* they do not fit, and passed by when they would fill it.
WireAfter(n) == IF n >= Cap THEN Written + n
                ELSE IF Written - wire + n > Cap THEN Written ELSE wire

ShouldFlush(n) == pending + n >= FlushBytes

\* The bytes of the resource from offset on.
Bytes(n) == [i \in 1..n |-> offset + i - 1]

WriteBytes(n) == body' = body \o Bytes(n) /\ offset' = offset + n

-----------------------------------------------------------------------------
(* The request, and what is answered before a source is opened.            *)

ReadRequest(k, h, r) ==
    /\ serving = "Wait" /\ serving' = "Open"
    /\ kind' = k /\ headOnly' = h /\ range' = r
    /\ UNCHANGED <<resource, reply, left, offset, body, wire, pending, handle>>

\* A head alone, or with a short text, flushed at once.
Answer(status, text) ==
    /\ reply' = [status |-> status, size |-> text, first |-> 0, length |-> text]
    /\ body' = [i \in 1..text |-> i - 1] /\ wire' = 1 + text
    /\ serving' = "Done"
    /\ UNCHANGED <<request, resource, left, offset, pending, handle>>

\* The peer closes or never finishes the head: nothing is answered.  A
\* malformed head is a 400, another method a 405, another target or no source
\* a 404, none of them with a body.
Refuse ==
    /\ serving = "Wait"
    /\ \/ Answer("Refused", 0)
       \/ /\ serving' = "Done"
          /\ UNCHANGED <<request, resource, reply, left, offset, body, wire, pending, handle>>

\* The connection ends without more ado: what is buffered is lost, an SMB
\* handle is left to the session.
Drop ==
    /\ serving' = "Aborted" /\ handle' = IF handle = "Open" THEN "Dropped" ELSE handle
    /\ UNCHANGED <<request, resource, reply, left, offset, body, wire, pending>>

\* File::open fails; the URL of a share or an origin is invalid, the share
\* refuses, the origin fails or does not answer in time.
OpenFails ==
    /\ serving = "Open"
    /\ \/ kind = "File" /\ (Answer("Refused", 0) \/ Drop)
       \/ kind \in {"Smb", "Url"} /\ (Answer("Refused", 0) \/ Answer("Failed", 1))
       \/ kind = "Live" /\ Answer("Busy", 1)

-----------------------------------------------------------------------------
(* local_file and smb_source.                                              *)

WriteHead(r) == reply' = r /\ wire' = WireAfter(1)

OpenFile ==
    /\ serving = "Open" /\ kind \in {"File", "Smb"} /\ serving' = "Copy"
    /\ WriteHead(ParseRange(range)) /\ offset' = ParseRange(range).first
    /\ left' = IF headOnly THEN 0 ELSE ParseRange(range).length
    /\ handle' = IF kind = "Smb" THEN "Open" ELSE handle
    /\ UNCHANGED <<request, resource, body, pending>>

\* What is asked of one read.
WholeChunk == Chunk
Want       == Min({left, Chunk})

\* A file may return less than there is; a share does so at the end only.
ReadChunk ==
    /\ serving = "Copy" /\ left > 0 /\ offset < size
    /\ LET most == Min({Want, size - offset})
       IN  \E n \in (IF kind = "Smb" THEN {most} ELSE 1..most) :
             /\ WriteBytes(n) /\ wire' = WireAfter(n)
             /\ left' = IF n > left THEN 0 ELSE left - n
    /\ UNCHANGED <<request, serving, resource, reply, pending, handle>>

\* A read of nothing ends the body early.
EndOfFile ==
    /\ serving = "Copy" /\ left > 0 /\ offset >= size /\ left' = 0
    /\ UNCHANGED <<request, serving, resource, reply, offset, body, wire, pending, handle>>

ReadFails == serving = "Copy" /\ left > 0 /\ Drop

\* The SMB handle is closed before the last flush.
Released == IF handle = "Open" THEN "Closed" ELSE handle

EndCopy ==
    /\ serving = "Copy" /\ left = 0 /\ serving' = "Flush" /\ handle' = Released
    /\ UNCHANGED <<request, resource, reply, left, offset, body, wire, pending>>

Flush ==
    /\ serving = "Flush" /\ serving' = "Done" /\ wire' = Written
    /\ UNCHANGED <<request, resource, reply, left, offset, body, pending, handle>>

\* Somebody writes to the file, or cuts it.
Resize(n) ==
    /\ serving = "Copy" /\ n # size /\ resizes < MaxResizes
    /\ size' = n /\ resizes' = resizes + 1 /\ shrunk' = (shrunk \/ n < size)
    /\ UNCHANGED <<request, serving, reply, left, offset, body, wire, pending, handle>>

-----------------------------------------------------------------------------
(* url_proxy and serve_live_screen.                                        *)

\* The origin's head is mirrored, with its Content-Length if it has one; the
\* head of a live stream has none.  Either is flushed; HEAD ends here for a
\* URL, and makes no difference to a live stream.
OpenStream ==
    /\ serving = "Open" /\ kind \in {"Url", "Live"}
    /\ \E n \in IF kind = "Url" THEN {size, Nothing} ELSE {Nothing} :
         reply' = [status |-> "Stream", size |-> size, first |-> 0, length |-> n]
    /\ wire' = 1 /\ pending' = 0
    /\ serving' = IF kind = "Url" /\ headOnly THEN "Done" ELSE "Stream"
    /\ UNCHANGED <<request, resource, left, offset, body, handle>>

\* A chunk is written; a flush follows when there is enough of it, or when the
\* last one is long enough ago.
StreamChunk ==
    /\ serving = "Stream" /\ offset < size
    /\ \E n \in 1..Min({Chunk, size - offset}) :
         /\ WriteBytes(n)
         /\ \/ wire' = Written + n /\ pending' = 0
            \/ ~ShouldFlush(n) /\ wire' = WireAfter(n) /\ pending' = pending + n
    /\ UNCHANGED <<request, serving, resource, reply, left, handle>>

\* The deadline passes without a chunk.
PendingMuch == pending >= FlushBytes
HasPending  == pending > 0

FlushDeadline ==
    /\ serving = "Stream" /\ HasPending
    /\ wire' = Written /\ pending' = 0
    /\ UNCHANGED <<request, serving, resource, reply, left, offset, body, handle>>

\* The body of the origin, or the encoder's output, has ended.
FlushTail == wire' = Written

StreamEnds ==
    /\ serving = "Stream" /\ offset = size
    /\ FlushTail /\ serving' = "Done"
    /\ UNCHANGED <<request, resource, reply, left, offset, body, pending, handle>>

StreamFails == serving = "Stream" /\ kind = "Url" /\ Drop

-----------------------------------------------------------------------------

\* A source switch, shutdown, or a client that is gone.
Abort == serving \in {"Open", "Copy", "Flush", "Stream"} /\ Drop

CopyStep == ReadChunk \/ EndOfFile \/ EndCopy \/ Flush

BodyNext ==
    \/ \E k \in Kinds, h \in BOOLEAN, r \in Ranges : ReadRequest(k, h, r)
    \/ Refuse \/ OpenFails \/ OpenFile \/ CopyStep \/ ReadFails
    \/ \E n \in Sizes : Resize(n)
    \/ OpenStream \/ StreamChunk \/ FlushDeadline \/ StreamEnds \/ StreamFails
    \/ Abort

\* Reads of a file return, the timer of a select fires, and the client reads.
\* An origin or an encoder may stay silent for ever.
BodySpec == /\ BodyInit /\ [][BodyNext]_bodyVars
            /\ WF_bodyVars(CopyStep) /\ WF_bodyVars(FlushDeadline)

-----------------------------------------------------------------------------
(* Properties.                                                             *)

\* The offsets a Range header asks for in a resource of n bytes (RFC 7233).
Asked(r, n) ==
    {i \in 0..n : i < n /\ CASE r.form = "From"      -> i >= r.a
                             [] r.form = "FromTo"    -> r.a <= i /\ i <= r.b
                             [] r.form = "Suffix"    -> i + r.n >= n
                             [] r.form = "Malformed" -> FALSE
                             [] OTHER                -> TRUE}

Promised == {i \in Sizes : reply.first <= i /\ i < reply.first + reply.length}

\* What follows the head of a file is the range the client asked for, byte for
\* byte and never more than Content-Length, though the file grows or shrinks
\* while it is copied ("Stream exactly remaining bytes", stream_reader); 416
\* is sent exactly when a range selects nothing; HEAD has no body.
BodyIsPromised ==
    reply # Nothing /\ kind \in {"File", "Smb"} /\ reply.status # "Refused" =>
        /\ \A i \in 1..Len(body) : body[i] = reply.first + i - 1
        /\ Len(body) <= reply.length
        /\ reply.status \in {"OK", "Partial", "Unsatisfiable"} =>
             /\ Promised = Asked(range, reply.size)
             /\ (reply.status = "OK") = (range.form \in {"Absent", "Ignored"})
             /\ headOnly => body = <<>>

\* A response that ended by itself left nothing in the buffer, is complete
\* unless the file shrank under it, and let go of the SMB handle ("the handle
\* is closed on the happy path").
DoneIsDelivered ==
    serving = "Done" /\ reply # Nothing =>
        /\ wire = Written /\ handle \in {"None", "Closed"}
        /\ ~headOnly /\ reply.length # Nothing => Len(body) = reply.length \/ shrunk
        /\ kind = "Url" /\ ~headOnly /\ reply.status = "Stream" => Len(body) = size

\* A response is what its head says, all of it and nothing else.
ServedAsPromised == BodyIsPromised /\ DoneIsDelivered

\* Every byte handed to the writer reaches the wire, or the connection ends,
\* also when the origin or the encoder then falls silent ("so the receiver
\* never waits past the interval on a stalled origin").
BufferedReaches ==
    \A n \in 1..MaxSize + 1 : Written >= n ~> (wire >= n \/ serving = "Aborted")

=============================================================================

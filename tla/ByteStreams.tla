----------------------------- MODULE ByteStreams -----------------------------
(***************************************************************************)
(* The two threads that read a byte stream in whatever pieces it comes:    *)
(* the reader thread of a connection (reader_loop,                         *)
(* src/cast/connection/reader.rs), which hands frames to the connection    *)
(* task, and the encoder's stdout reader                                   *)
(* (src/screen/bridge/stdout_reader.rs), which hands segments to the       *)
(* bridge.  What they hand over must not depend on the pieces.             *)
(***************************************************************************)
EXTENDS CastWire, Segmenter

CONSTANTS
    Texts,       \* the four strings of each message that is sent
    ReadSizes,   \* how much one read may return
    Outputs,     \* what the encoder may write, whole or cut off, boxes or not
    MaxFrames    \* bound on the frames of a stream

ASSUME ByteStreamsAssumption ==
    /\ Texts \subseteq Seq(Byte) \X Seq(Byte) \X Seq(Byte) \X Seq(Byte)
    /\ ReadSizes \subseteq Nat \ {0} /\ 1 \in ReadSizes
    /\ Outputs \subseteq Seq(Nat) /\ MaxFrames \in Nat

-----------------------------------------------------------------------------
(* What the streams may hold.                                              *)

\* A message as it is written, and as it is to be read.
Plain(t) ==
    [bytes |-> EncodeCastMessage(t[1], t[2], t[3], t[4]),
     reads |-> [EmptyMessage EXCEPT !.source = t[1], !.dest = t[2], !.namespace = t[3],
                                    !.payload = t[4]]]

\* Fields this application does not know, before the message or after it.
Before(field, l) == [l EXCEPT !.bytes = field \o @]
Behind(field, l) == [l EXCEPT !.bytes = @ \o field]

Variants(l) ==
    {l, Before(WriteVarint(7, 127), l), Before(WriteFixed(7, Fixed64), l),
     Before(WriteLengthDelimited(7, <<2, 2>>), l), Behind(WriteFixed(7, Fixed32), l),
     Behind(WriteLengthDelimited(1, <<>>), l),
     \* a field given twice: the last one counts
     [Behind(WriteVarint(1, 65), l) EXCEPT !.reads.version = 1],
     [Behind(WriteVarint(5, 1), l) EXCEPT !.reads.binary = TRUE],
     Before(WriteLengthDelimited(6, <<5>>), l)}

\* What a frame can hold is sent.
Letters == {l \in UNION {Variants(Plain(t)) : t \in Texts} : Len(l.bytes) <= MaxFrame}
Mails   == UNION {[1..n -> Letters] : n \in 0..MaxFrames}

\* The stream ends after a frame, in the middle of one, or with a length that
\* no frame has, more bytes behind it.
FrameTails == {<<>>, <<0>>, <<0, 2, 1>>, <<15, 15, 0, 1, 1>>}

FrameStream(mail, tail) ==
    FlattenSeq([i \in DOMAIN mail |-> EncodeFrame(mail[i].bytes)]) \o tail

-----------------------------------------------------------------------------

VARIABLES
    reader,     \* which of the two threads
    mail,       \* history: the messages a stream of frames carries
    stream,     \* all the bytes
    at,         \* how many of them have been read
    state,      \* the thread's FrameAccumulator or Mp4Segmenter
    ended       \* how it ended: "No", "Eof" or "Error"

streamVars == <<reader, mail, stream, at, state, ended>>

FramesInit ==
    /\ reader = "Frames" /\ mail \in Mails
    /\ \E tail \in FrameTails : stream = FrameStream(mail, tail)
    /\ state = NewAccumulator

SegmentsInit ==
    /\ reader = "Segments" /\ mail = <<>>
    /\ stream \in Outputs /\ state = NewSegmenter

StreamInit == (FramesInit \/ SegmentsInit) /\ at = 0 /\ ended = "No"

\* One read returns the next n bytes, or what there is.
Chunk(n) == SubSeq(stream, at + 1, Min({at + n, Len(stream)}))

ReadStep(n) ==
    /\ ended = "No" /\ at < Len(stream)
    /\ at' = at + Len(Chunk(n))
    /\ UNCHANGED <<reader, mail, stream>>

\* reader_loop: an error of the accumulator ends it.
ReadFrames(n) ==
    /\ reader = "Frames" /\ ReadStep(n)
    /\ state' = PushBytes(state, Chunk(n))
    /\ ended' = IF state'.failed THEN "Error" ELSE "No"

\* read_encoded
ReadSegments(n) ==
    /\ reader = "Segments" /\ ReadStep(n)
    /\ state' = Feed(state, Chunk(n))
    /\ UNCHANGED ended

\* The stream ends, wherever it is: only the segmenter has something left to
\* hand over.
EndOfStream ==
    /\ ended = "No" /\ ended' = "Eof"
    /\ state' = IF reader = "Segments" THEN FinishSegments(state) ELSE state
    /\ UNCHANGED <<reader, mail, stream, at>>

\* A read fails: the thread returns as it is.
ReadError ==
    /\ ended = "No" /\ ended' = "Error"
    /\ UNCHANGED <<reader, mail, stream, at, state>>

StreamNext ==
    \/ \E n \in ReadSizes : ReadFrames(n) \/ ReadSegments(n)
    \/ EndOfStream \/ ReadError

StreamSpec == StreamInit /\ [][StreamNext]_streamVars

-----------------------------------------------------------------------------
(* Properties.                                                             *)

\* A message reaches the connection task exactly as it was sent and in its
\* turn, however the bytes were cut, whatever fields came with it: what has
\* been handed over is always a beginning of what was sent.  Nothing is held
\* back: a frame of which all bytes have been read has been handed over,
\* unless a bad length was met (push_bytes, decode_cast_message).
SentBefore(n) ==
    {i \in DOMAIN mail : Len(FrameStream(SubSeq(mail, 1, i), <<>>)) <= n}

MessagesArrive ==
    reader = "Frames" =>
        /\ Len(state.frames) <= Len(mail)
        /\ \A i \in DOMAIN state.frames :
              DecodeCastMessage(state.frames[i]) = [ok |-> TRUE, message |-> mail[i].reads]
        /\ ~state.failed => DOMAIN state.frames = SentBefore(at)
        /\ state.failed => at > Len(FrameStream(mail, <<>>))

\* Cut anywhere, the encoder's output gives the same segments: the init
\* segment and the complete fragments of the boxes read so far, never a part
\* of a box.  Once something is met that is no box, what follows is handed
\* over as it is read.
SegmentsAreWhole ==
    reader = "Segments" =>
        LET read  == SubSeq(stream, 1, at)
            whole == IF ended = "Eof" THEN SegmentsAtEnd(read) ELSE Segments(Boxes(read))
            begun == Moofs(Boxes(read)) # {} \/ ended = "Eof" \/ state.opaque
            loose == SubSeq(state.out, Len(whole) + 1, Len(state.out))
        IN /\ state.opaque = Broken(read)
           /\ ~begun => state.out = <<>>
           /\ begun => IsPrefix(whole, state.out)
           /\ begun /\ ~state.opaque => loose = <<>>
           /\ IsSuffix(FlattenSeq([i \in DOMAIN loose |-> loose[i].bytes]), read)

=============================================================================

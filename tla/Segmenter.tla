------------------------------ MODULE Segmenter ------------------------------
(***************************************************************************)
(* Mp4Segmenter (src/screen/segments.rs): the encoder's output is cut into *)
(* the init segment and whole fragments, moof to mdat.                     *)
(*                                                                         *)
(* A stream is a sequence of elements.  A box is its size in elements, its *)
(* kind, one element for the other bytes of the header, and its contents;  *)
(* size 1 announces that the size proper follows the header, which two     *)
(* more elements hold.                                                     *)
(***************************************************************************)
EXTENDS Loops, Integers, Sequences, SequencesExt, FiniteSetsExt

CONSTANT MaxBox   \* MAX_BOX_BYTES

HeaderLen == 3    \* 8 bytes
LargeLen  == 5    \* 16 bytes

\* Kinds of boxes: bMoof, bMdat and the others.
Moof  == 101
Mdat  == 102
Other == 103

ASSUME SegmenterAssumption == MaxBox \in Nat /\ MaxBox >= LargeLen

Segment(kind, bytes) == [kind |-> kind, bytes |-> bytes]

\* Mp4Segmenter::new; out is everything feed and finish have returned so far.
NewSegmenter ==
    [pending |-> <<>>, init |-> <<>>, init_emitted |-> FALSE,
     fragment |-> <<>>, in_fragment |-> FALSE, opaque |-> FALSE, out |-> <<>>]

-----------------------------------------------------------------------------

\* The length of the box that p starts with: not known yet, or no box at all.
Unknown   == 0
Malformed == -1

Sized(n, header) == IF n \in header..MaxBox THEN n ELSE Malformed

BoxLen(p) ==
    CASE Len(p) < HeaderLen               -> Unknown
      [] p[1] = 1 /\ Len(p) < LargeLen    -> Unknown
      [] p[1] = 1 /\ Len(p) >= LargeLen   -> Sized(p[4], LargeLen)
      [] OTHER                            -> Sized(p[1], HeaderLen)

InitIfAny(bytes) == IF bytes = <<>> THEN <<>> ELSE <<Segment("Init", bytes)>>

\* enter_opaque: a whole init is handed over, what cannot be parsed and the
\* fragment in progress are dropped.
EnterOpaque(s) ==
    LET emit == IF s.init_emitted THEN <<>> ELSE InitIfAny(s.init)
    IN [s EXCEPT !.out = @ \o emit, !.init = IF s.init_emitted THEN @ ELSE <<>>,
                 !.pending = <<>>, !.fragment = <<>>, !.in_fragment = FALSE, !.opaque = TRUE]

\* The first moof ends the init segment; one without an mdat before the next
\* is a fragment all the same.
TakeMoof(s, box) ==
    LET init  == IF s.init_emitted THEN <<>> ELSE InitIfAny(s.init)
        moved == IF s.in_fragment THEN <<Segment("Fragment", s.fragment)>> ELSE <<>>
    IN [s EXCEPT !.out = @ \o init \o moved, !.init = IF s.init_emitted THEN @ ELSE <<>>,
                 !.init_emitted = TRUE, !.fragment = box, !.in_fragment = TRUE]

TakeMdat(s, box) ==
    [s EXCEPT !.out = Append(@, Segment("Fragment", s.fragment \o box)),
              !.fragment = <<>>, !.in_fragment = FALSE]

\* Any other box belongs to the fragment in progress or to the init segment,
\* which after the first moof is never handed over.
TakeOther(s, box) ==
    IF s.in_fragment THEN [s EXCEPT !.fragment = @ \o box] ELSE [s EXCEPT !.init = @ \o box]

TakeBox(s, n) ==
    LET box  == SubSeq(s.pending, 1, n)
        rest == [s EXCEPT !.pending = SubSeq(@, n + 1, Len(@))]
    IN CASE box[2] = Moof                  -> TakeMoof(rest, box)
         [] box[2] = Mdat /\ s.in_fragment -> TakeMdat(rest, box)
         [] OTHER                            -> TakeOther(rest, box)

\* The loop of feed.
CutOne(s) ==
    LET n == BoxLen(s.pending)
    IN CASE n = Malformed -> EnterOpaque(s)
         [] n = Unknown \/ n > Len(s.pending) -> s
         [] OTHER -> TakeBox(s, n)

Cut(s) == Repeat(CutOne, s, Len(s.pending))

FeedAfresh(s, chunk) ==
    IF s.opaque THEN [s EXCEPT !.out = Append(@, Segment("Fragment", chunk))]
    ELSE Cut([s EXCEPT !.pending = chunk])
Feed(s, chunk) ==
    IF s.opaque THEN [s EXCEPT !.out = Append(@, Segment("Fragment", chunk))]
    ELSE Cut([s EXCEPT !.pending = @ \o chunk])

\* finish: a stream without a moof is all init; a truncated tail is dropped.
FinishSegments(s) ==
    IF s.opaque \/ s.init_emitted THEN s
    ELSE [s EXCEPT !.out = @ \o InitIfAny(s.init \o s.pending), !.pending = <<>>, !.init = <<>>]

-----------------------------------------------------------------------------
(* The reference: what the segments of a whole stream are.                 *)

\* The boxes a stream is made of, and the rest, from a box that is malformed
\* or incomplete on.
NextBox(p) ==
    LET n == BoxLen(p.rest)
    IN IF n \in {Malformed, Unknown} \/ n > Len(p.rest) THEN p
       ELSE [boxes |-> Append(p.boxes, SubSeq(p.rest, 1, n)),
             rest  |-> SubSeq(p.rest, n + 1, Len(p.rest))]

Parsed(p) == Repeat(NextBox, [boxes |-> <<>>, rest |-> p], Len(p))
Boxes(p)  == Parsed(p).boxes
Broken(p) == BoxLen(Parsed(p).rest) = Malformed

Bytes(boxes) == FlattenSeq(boxes)

\* Where kind occurs among the boxes i to j.
Places(boxes, kind, i, j) == {k \in i..j : boxes[k][2] = kind}
Moofs(boxes)              == Places(boxes, Moof, 1, Len(boxes))

\* A fragment starts with a moof, and is in progress as long as no mdat comes.
InFragment(boxes, j) ==
    \E i \in Places(boxes, Moof, 1, j) : Places(boxes, Mdat, i, j) = {}

\* It ends with that mdat, or before the next moof.
EndsAt(boxes, j) ==
    \/ InFragment(boxes, j - 1) /\ boxes[j][2] = Mdat
    \/ InFragment(boxes, j) /\ j < Len(boxes) /\ boxes[j + 1][2] = Moof

FragmentAt(boxes, j) ==
    IF EndsAt(boxes, j)
    THEN <<Segment("Fragment", Bytes(SubSeq(boxes, Max(Places(boxes, Moof, 1, j)), j)))>>
    ELSE <<>>

\* What comes before the first moof is the init segment.
InitBoxes(boxes) ==
    SubSeq(boxes, 1, IF Moofs(boxes) = {} THEN Len(boxes) ELSE Min(Moofs(boxes)) - 1)

Segments(boxes) ==
    InitIfAny(Bytes(InitBoxes(boxes)))
      \o FlattenSeq([j \in 1..Len(boxes) |-> FragmentAt(boxes, j)])

\* Of a stream that ends here.
SegmentsAtEnd(p) ==
    IF Moofs(Boxes(p)) = {} /\ ~Broken(p) THEN InitIfAny(p) ELSE Segments(Boxes(p))

=============================================================================

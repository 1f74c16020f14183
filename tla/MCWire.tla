------------------------------- MODULE MCWire -------------------------------
(***************************************************************************)
(* The request ids of a session and the byte streams, checked side by side *)
(* in one state space: a behaviour is one of the former or of the latter,  *)
(* for the two share no state.                                             *)
(***************************************************************************)
EXTENDS RequestId, ByteStreams

CONSTANT MaxBoxes   \* bound on the boxes of a stream

\* A ping, and a message whose payload is longer than a varint byte can say.
SomeTexts == {<< <<1>>, <<9, 15>>, <<>>, <<2>> >>,
              << <<8>>, <<1>>, <<3>>, <<4, 12, 0, 1, 15, 2, 8, 6, 7>> >>}

\* Boxes of either header; all that no box is; and some that are cut short.
SomeBoxes == {<<3, Other, 0>>, <<3, Moof, 0>>, <<1, Mdat, 0, 6, 0, 0>>}
BoxTails  == {<<>>, <<3>>, <<5, Mdat, 0, 0>>, <<0, Other, 0>>, <<2, Mdat, 0>>,
              <<1, Mdat, 0, 4, 0>>, <<MaxBox + 1, Mdat, 0>>}

\* Bytes behind what is no box.
Written(movie, tail) ==
    FlattenSeq(movie) \o tail \o (IF BoxLen(tail) = Malformed THEN <<3, Moof, 0>> ELSE <<>>)

SomeOutputs ==
    {Written(movie, tail) : movie \in UNION {[1..n -> SomeBoxes] : n \in 0..MaxBoxes}, tail \in BoxTails}

wireVars == <<idVars, streamVars>>

\* No stream is read.
NoStream == /\ reader = "None" /\ mail = <<>> /\ stream = <<>> /\ at = 0
            /\ state = NewAccumulator /\ ended = "Eof"

WireInit == IdInit /\ (NoStream \/ StreamInit)

IdStep     == reader = "None" /\ IdNext /\ UNCHANGED streamVars
StreamStep == reader # "None" /\ StreamNext /\ UNCHANGED idVars

WireSpec == /\ WireInit /\ [][IdStep \/ StreamStep]_wireVars
            /\ WF_wireVars(reader = "None" /\ Reap /\ UNCHANGED streamVars)
            /\ WF_wireVars(reader = "None" /\ Tick /\ UNCHANGED streamVars)

=============================================================================

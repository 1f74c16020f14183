------------------------ MODULE ScreenPipelineProofs ------------------------
(***************************************************************************)
(* The screen pipeline for any capacities and any number of changes of the *)
(* monitor's resolution: its queues stay bounded, the init segment of the  *)
(* running encoder is never the one that is dropped, one error is reported *)
(* at most, and what reaches the media server can be decoded.              *)
(*                                                                         *)
(* The argument has three independent parts: how often the capture thread  *)
(* and the controller may fail, how a restart uses up a change of the      *)
(* resolution, and what lies between a reader and the channel.             *)
(***************************************************************************)
EXTENDS ScreenPipeline, SequenceTheorems, TLAPS

\* run_capture ends at the limit of either count.
Counting ==
    cap # "Done" => capture_failures < MaxFailures /\ reacquire_failures < MaxFailures

\* report_once.
Reported ==
    \/ failed = FALSE /\ errors = 0
    \/ failed = TRUE /\ errors = 1 /\ stop = TRUE

-----------------------------------------------------------------------------
(* A restart needs a request that differs from what runs or is about to,   *)
(* the request a captured frame of another size than the last, and that    *)
(* frame a change of the monitor's.                                        *)

Flag(p) == IF p THEN 1 ELSE 0

\* The size that runs, or that a restart in progress is for.
Aimed == IF gen = 0 THEN Native ELSE IF ctl \in {"Restart", "Join"} THEN target ELSE current

\* The size that the capture thread takes the monitor to have.
Seen == IF expected = None THEN Native ELSE expected

Restarts ==
    /\ (IF gen = 0 THEN 1 ELSE gen) + Flag(resolution_request \notin {None, Aimed})
         + Flag(ctl \in {"Restart", "Join"}) + Flag(screen # Seen) <= changes + 1
    /\ ctl = "Spawn" => gen = 0 /\ target = Native
    /\ ctl \in {"Restart", "Join"} => target \in Sizes /\ expected # None
    /\ ctl \in {"Poll", "Clear", "Feed", "Restart", "Join"} => gen > 0
    /\ expected = None => resolution_request = None /\ Aimed = Native

-----------------------------------------------------------------------------
(* From the reader of the running encoder to the channel.                  *)

InitOf(g) == [kind |-> "Init", gen |-> g]

\* Only the last encoder's reader runs: restart joined the others.
Readers ==
    \A g \in Generations :
        /\ g < gen => reader[g] = "Done"
        /\ g > gen => reader[g] = "None"
        /\ g = gen => reader[g] # "None"

\* The output queue holds segments of the last encoder only, its init first.
Queued ==
    /\ \A k \in DOMAIN output : output[k].gen = gen /\ (output[k].kind = "Init" => k = 1)
    /\ \A g \in Generations : reader[g] = "Start" => output = <<>>

\* The forwarder's segment is what the channel needs next, and no older than
\* what is queued behind it.
Forwarding ==
    /\ lead <= gen
    /\ fwd = "Send" <=> held # None
    /\ held # None => /\ held.gen <= gen
                      /\ held.kind = "Init" => held.gen > lead
                      /\ held.kind = "Fragment" => held.gen = lead

\* Until the forwarder has it, the init of a reader that has cut it is queued.
InitFirst ==
    /\ (gen > 0 /\ fwd # "Done" /\ (reader[gen] = "Cut" \/ output # <<>>)) =>
          \/ lead = gen \/ held = InitOf(gen)
          \/ output # <<>> /\ output[1] = InitOf(gen)
    /\ (gen > 0 /\ (reader[gen] = "Start" \/ (output # <<>> /\ output[1].kind = "Init"))) =>
          lead < gen /\ (held # None => held.gen < gen)

Stream == Readers /\ Queued /\ Forwarding /\ InitFirst

IInv == TypeOK /\ Counting /\ Reported /\ Restarts /\ Stream

-----------------------------------------------------------------------------
(* Which steps touch what.                                                 *)

restarting == <<monitor, expected, resolution_request, ctl, target, gen, current>>
streaming  == <<output, reader, gen, fwd, held, lead>>

LEMMA Frame ==
    ASSUME [Next]_vars
    PROVE  /\ CaptureThread \/ UNCHANGED capture
           /\ (BridgeStop \/ CaptureThread \/ FirstSpawn \/ RestartSpawn \/ FeedFails \/ ForwardClosed)
                 \/ UNCHANGED flags
           /\ (ScreenChange \/ CaptureFrame \/ Controller) \/ UNCHANGED restarting
           /\ (\/ FirstSpawn \/ RestartSpawn \/ Forwarder
               \/ \E g \in Generations : ReaderPush(g) \/ ReaderEof(g)) \/ UNCHANGED streaming
           /\ (PushFrame \/ FeedFrame \/ FeedFails) \/ UNCHANGED frames
           /\ (ForwardSegment \/ ConsumerDrain \/ ConsumerClose) \/ UNCHANGED channel
<1> USE DEF restarting, streaming
<1>1. CASE ScreenChange
  BY <1>1 DEF ScreenChange, encoder, server
<1>2. CASE BridgeStop
  BY <1>2 DEF BridgeStop, encoder, capture, server
<1>3. CASE Trigger
  BY <1>3 DEF Trigger, encoder, capture, server
<1>4. CASE OpenMonitor
  BY <1>4 DEF OpenMonitor, CaptureThread, encoder, server
<1>5. CASE CaptureFrame
  BY <1>5 DEF CaptureFrame, CaptureThread, encoder, server
<1>6. CASE PushFrame
  BY <1>6 DEF PushFrame, CaptureThread, encoder, server
<1>7. CASE CaptureError
  BY <1>7 DEF CaptureError, CaptureThread, encoder, server
<1>8. CASE CaptureStops
  BY <1>8 DEF CaptureStops, CaptureThread, encoder, server
<1>9. CASE FirstSpawn
  BY <1>9 DEF FirstSpawn, Controller, server
<1>10. CASE PollRequest
  BY <1>10 DEF PollRequest, Controller, encoder, server
<1>11. CASE RestartWait
  BY <1>11 DEF RestartWait, Controller, server
<1>12. CASE RestartSpawn
  BY <1>12 DEF RestartSpawn, Controller, server
<1>13. CASE ClearRequest
  BY <1>13 DEF ClearRequest, Controller, encoder, server
<1>14. CASE FeedFrame
  BY <1>14 DEF FeedFrame, Controller, encoder, server
<1>15. CASE FeedFails
  BY <1>15 DEF FeedFails, Controller, encoder, server
<1>16. CASE Teardown
  BY <1>16 DEF Teardown, Controller, server
<1>17. CASE EncoderExits
  BY <1>17 DEF EncoderExits, capture, server
<1>18. ASSUME NEW g \in Generations, ReaderPush(g) PROVE UNCHANGED <<capture, flags, restarting, frames, channel>>
  BY <1>18 DEF ReaderPush, encoder, capture, server
<1>19. ASSUME NEW g \in Generations, ReaderEof(g) PROVE UNCHANGED <<capture, flags, restarting, frames, channel>>
  BY <1>19 DEF ReaderEof, encoder, capture, server
<1>20. CASE ForwarderPop
  BY <1>20 DEF ForwarderPop, Forwarder, encoder, capture, server
<1>21. CASE ForwarderStops
  BY <1>21 DEF ForwarderStops, Forwarder, encoder, capture, server
<1>22. CASE ForwardSegment
  BY <1>22 DEF ForwardSegment, Forwarder, encoder, capture
<1>23. CASE ForwardClosed
  BY <1>23 DEF ForwardClosed, Forwarder, encoder, capture, server
<1>24. CASE ConsumerDrain
  BY <1>24 DEF ConsumerDrain, encoder, capture
<1>25. CASE ConsumerClose
  BY <1>25 DEF ConsumerClose, encoder, capture
<1>26. CASE UNCHANGED vars
  BY <1>26 DEF vars, encoder, capture, server
<1> HIDE DEF restarting, streaming
<1> QED BY <1>1, <1>2, <1>3, <1>4, <1>5, <1>6, <1>7, <1>8, <1>9, <1>10, <1>11, <1>12, <1>13,
           <1>14, <1>15, <1>16, <1>17, <1>18, <1>19, <1>20, <1>21, <1>22, <1>23, <1>24, <1>25,
           <1>26 DEF Next, CaptureThread, Controller, Forwarder

-----------------------------------------------------------------------------
(* The capture thread, and the error reports.                              *)

CaptureOK ==
    /\ cap \in {"Open", "Grab", "Push", "Done"}
    /\ capture_failures \in 0..MaxFailures /\ reacquire_failures \in 0..MaxFailures

LEMMA CountingKept ==
    ASSUME CaptureOK, Counting, [Next]_vars
    PROVE  CaptureOK' /\ Counting'
<1> USE ScreenPipelineAssumption DEF CaptureOK, Counting
<1>1. CASE UNCHANGED capture
  BY <1>1 DEF capture
<1>2. CASE OpenMonitor
  BY <1>2 DEF OpenMonitor
<1>3. CASE CaptureFrame
  BY <1>3 DEF CaptureFrame
<1>4. ASSUME cap # "Done", Reacquire, capture_failures' < MaxFailures, capture_failures' \in Nat
      PROVE  CaptureOK' /\ Counting'
  BY <1>4 DEF Reacquire
<1>5. CASE PushFrame
  <2>1. capture_failures' = capture_failures /\ cap = "Push" /\ Reacquire
    BY <1>5 DEF PushFrame
  <2> QED BY <1>4, <2>1
<1>6. CASE CaptureError
  <2>1. cap = "Grab" /\ capture_failures' = capture_failures + 1
    BY <1>6 DEF CaptureError
  <2>2. CASE capture_failures' >= MaxFailures
    <3>1. cap' = "Done" /\ UNCHANGED reacquire_failures
      BY <1>6, <2>2 DEF CaptureError
    <3> QED BY <2>1, <3>1
  <2>3. CASE ~(capture_failures' >= MaxFailures)
    <3>1. Reacquire
      BY <1>6, <2>3 DEF CaptureError
    <3> QED BY <1>4, <2>1, <2>3, <3>1
  <2> QED BY <2>2, <2>3
<1>7. CASE CaptureStops
  BY <1>7 DEF CaptureStops
<1> QED BY <1>1, <1>2, <1>3, <1>5, <1>6, <1>7, Frame DEF CaptureThread

\* Whoever fails first reports, and the rest of the pipeline finds it stopped.
LEMMA ReportedKept ==
    ASSUME Reported, [Next]_vars
    PROVE  Reported'
<1>1. CASE UNCHANGED flags
  BY <1>1 DEF flags, Reported
<1>2. CASE ReportOnce
  <2>1. CASE failed = FALSE /\ errors = 0
    BY <1>2, <2>1 DEF ReportOnce, Reported
  <2>2. CASE failed = TRUE /\ errors = 1 /\ stop = TRUE
    BY <1>2, <2>2 DEF ReportOnce, Reported
  <2> QED BY <2>1, <2>2 DEF Reported
<1>3. CASE stop' = TRUE /\ UNCHANGED <<failed, errors>>
  BY <1>3 DEF Reported
<1>4. CASE BridgeStop \/ ForwardClosed
  BY <1>3, <1>4 DEF BridgeStop, ForwardClosed, ClosedStops
<1>5. CASE CaptureThread
  BY <1>1, <1>2, <1>5 DEF CaptureThread, OpenMonitor, CaptureFrame, PushFrame, CaptureError,
                          CaptureStops, Reacquire
<1>6. CASE FirstSpawn \/ RestartSpawn \/ FeedFails
  BY <1>1, <1>2, <1>6 DEF FirstSpawn, RestartSpawn, FeedFails
<1> QED BY <1>1, <1>4, <1>5, <1>6, Frame

-----------------------------------------------------------------------------
(* The restarts.                                                           *)

RestartOK ==
    /\ screen \in Sizes /\ changes \in 0..MaxChanges
    /\ expected \in Sizes \cup {None} /\ resolution_request \in Sizes \cup {None}
    /\ current \in Sizes \cup {None} /\ target \in Sizes \cup {None}
    /\ ctl \in {"Spawn", "Poll", "Restart", "Join", "Clear", "Feed", "Teardown", "Done"}
    /\ gen \in 0..MaxChanges + 1

\* A restart that is under way has a change left to use up.
LEMMA RestartFits ==
    ASSUME RestartOK, Restarts, ctl = "Join"
    PROVE  gen > 0 /\ gen + 1 \in Generations
<1>1. gen > 0 /\ gen + 1 <= changes + 1
  BY ScreenPipelineAssumption DEF RestartOK, Restarts, Flag
<1> QED BY <1>1, ScreenPipelineAssumption DEF RestartOK, Generations

LEMMA RestartsKept ==
    ASSUME RestartOK, Restarts, [Next]_vars
    PROVE  RestartOK' /\ Restarts'
<1> USE ScreenPipelineAssumption DEF RestartOK, Restarts, Flag, Aimed, Seen
<1>1. CASE UNCHANGED restarting
  BY <1>1 DEF restarting, monitor
<1>2. CASE ScreenChange
  BY <1>2 DEF ScreenChange, capture, encoder
<1>3. CASE CaptureFrame
  BY <1>3 DEF CaptureFrame, monitor, encoder
<1>4. CASE FirstSpawn
  <2>1. /\ UNCHANGED <<screen, changes, expected, resolution_request>>
        /\ gen = 0 /\ target = Native /\ target' = None
    BY <1>4 DEF FirstSpawn, monitor, capture
  <2>2. CASE SpawnEncoder /\ ctl' = "Poll"
    <3>1. gen' = 1 /\ current' = Native
      BY <2>1, <2>2 DEF SpawnEncoder
    <3> QED BY <2>1, <2>2, <3>1
  <2>3. CASE ctl' = "Done" /\ UNCHANGED encoder
    BY <2>1, <2>3 DEF encoder
  <2> QED BY <1>4, <2>2, <2>3 DEF FirstSpawn
<1>5. CASE PollRequest
  BY <1>5 DEF PollRequest, monitor, capture, encoder
<1>6. CASE RestartWait
  BY <1>6 DEF RestartWait, monitor, capture
<1>7. CASE RestartSpawn
  <2>1. /\ UNCHANGED <<screen, changes, expected, resolution_request>>
        /\ ctl = "Join" /\ target' = None
    BY <1>7 DEF RestartSpawn, monitor, capture
  <2>2. gen > 0 /\ gen + 1 \in 1..MaxChanges + 1
    BY <2>1, RestartFits DEF Generations
  <2>3. CASE SpawnEncoder /\ ctl' = "Clear"
    <3>1. gen' = gen + 1 /\ current' = target /\ ctl' = "Clear"
      BY <2>3 DEF SpawnEncoder
    <3>2. Aimed' = Aimed
      BY <2>1, <2>2, <3>1
    <3> QED BY <2>1, <2>2, <3>1, <3>2
  <2>4. CASE ctl' = "Teardown" /\ UNCHANGED encoder
    <3>1. gen' = gen /\ current' = current /\ ctl' = "Teardown"
      BY <2>4 DEF encoder
    <3> QED BY <2>1, <2>2, <3>1
  <2> QED BY <1>7, <2>3, <2>4 DEF RestartSpawn
<1>8. CASE ClearRequest
  <2>1. /\ UNCHANGED <<screen, changes, expected, target, gen, current>>
        /\ ctl = "Clear" /\ ctl' = "Poll" /\ resolution_request' = None
    BY <1>8 DEF ClearRequest, monitor, capture, encoder
  <2>2. Aimed' = Aimed /\ Seen' = Seen
    BY <2>1
  <2> QED BY <2>1, <2>2
<1>9. CASE FeedFrame \/ FeedFails
  BY <1>9 DEF FeedFrame, FeedFails, monitor, capture, encoder
<1>10. CASE Teardown
  BY <1>10 DEF Teardown, monitor, capture
<1> QED BY <1>1, <1>2, <1>3, <1>4, <1>5, <1>6, <1>7, <1>8, <1>9, <1>10, Frame DEF Controller

-----------------------------------------------------------------------------
(* The stream.                                                             *)

\* What push_or makes of a queue whose only init, if any, comes first: the
\* init stays where it is, and the others only move up.
LEMMA SegmentPushed ==
    ASSUME NEW q \in Seq(Segment), Len(q) <= OutputCap, NEW s \in Segment,
           \A k \in DOMAIN q : q[k].kind = "Init" => k = 1
    PROVE  LET r == PushSegment(q, s)
           IN /\ r \in Seq(Segment) /\ Len(r) <= OutputCap /\ r # <<>>
              /\ \A k \in DOMAIN r : r[k] = s \/ \E j \in DOMAIN q : r[k] = q[j] /\ k <= j
              /\ (q # <<>> /\ q[1].kind = "Init") => r[1] = q[1]
<1> DEFINE I == {i \in 1..Len(q) : q[i].kind = "Fragment"}
           r == PushSegment(q, s)
<1> USE ScreenPipelineAssumption
<1>1. CASE Len(q) < OutputCap
  <2>1. r = Append(q, s)
    BY <1>1 DEF PushSegment
  <2> QED BY <1>1, <2>1
<1>2. CASE Len(q) >= OutputCap /\ I = {}
  <2>1. SelectInSeq(q, LAMBDA b : b.kind = "Fragment") = 0
    BY <1>2 DEF SelectInSeq
  <2>2. r = q
    BY <1>2, <2>1 DEF PushSegment
  <2>3. q # <<>>
    BY <1>2
  <2> QED BY <2>2, <2>3
<1>3. CASE Len(q) >= OutputCap /\ I # {}
  <2>1. \A k \in 1..Len(q) : q[k].kind \in {"Init", "Fragment"}
    <3>1. \A k \in 1..Len(q) : q[k] \in Segment
      OBVIOUS
    <3> QED BY <3>1 DEF Segment
  <2>2. Min(I) \in I
    <3>1. CASE q[1].kind = "Fragment"
      <4>1. 1 \in I /\ \A y \in I : 1 <= y
        BY <1>3, <3>1
      <4> QED BY <4>1 DEF Min
    <3>2. CASE q[1].kind # "Fragment"
      <4>1. PICK i \in I : i >= 2
        BY <1>3, <3>2
      <4>2. 2 \in 1..Len(q)
        BY <4>1
      <4>3. q[2].kind = "Fragment"
        BY <2>1, <4>2
      <4>4. 2 \in I /\ \A y \in I : 2 <= y
        BY <3>2, <4>2, <4>3
      <4> QED BY <4>4 DEF Min
    <3> QED BY <3>1, <3>2
  <2>3. PICK e \in 1..Len(q) : e = Min(I) /\ q[e].kind = "Fragment"
    BY <2>2
  <2>4. SelectInSeq(q, LAMBDA b : b.kind = "Fragment") = e
    BY <1>3, <2>3 DEF SelectInSeq
  <2>5. r = Append(RemoveAt(q, e), s)
    <3>1. e # 0 /\ ~(Len(q) < OutputCap)
      BY <1>3
    <3> QED BY <1>3, <2>4, <3>1 DEF PushSegment
  <2> HIDE DEF r, I
  <2> DEFINE w == RemoveAt(q, e)
  <2>6. /\ w \in Seq(Segment) /\ Len(w) = Len(q) - 1
        /\ \A k \in 1..Len(w) : w[k] = IF k < e THEN q[k] ELSE q[k + 1]
    <3> DEFINE x == SubSeq(q, 1, e - 1)
               y == SubSeq(q, e + 1, Len(q))
    <3>1. /\ x \in Seq(Segment) /\ Len(x) = e - 1 /\ \A k \in 1..e - 1 : x[k] = q[k]
          /\ y \in Seq(Segment) /\ Len(y) = Len(q) - e
          /\ \A k \in 1..Len(q) - e : y[k] = q[e + k]
      <4>1. \A k \in 1..Len(q) : q[k] \in Segment
        OBVIOUS
      <4> QED BY <4>1
    <3>2. w = x \o y
      BY DEF RemoveAt
    <3> HIDE DEF x, y, w
    <3>3. /\ w \in Seq(Segment) /\ Len(w) = Len(x) + Len(y)
          /\ \A k \in 1..Len(x) + Len(y) : w[k] = IF k <= Len(x) THEN x[k] ELSE y[k - Len(x)]
      <4>1. x \in Seq(Segment) /\ y \in Seq(Segment)
        BY <3>1
      <4> QED BY <4>1, <3>2, ConcatProperties, Zenon
    <3>4. ASSUME NEW k \in 1..Len(w) PROVE w[k] = IF k < e THEN q[k] ELSE q[k + 1]
      <4>1. w[k] = IF k <= e - 1 THEN x[k] ELSE y[k - (e - 1)]
        BY <3>1, <3>3
      <4>2. CASE k < e
        BY <3>1, <4>1, <4>2
      <4>3. CASE k >= e
        <5>1. k - (e - 1) \in 1..Len(q) - e /\ e + (k - (e - 1)) = k + 1
          BY <3>1, <3>3, <4>3
        <5>2. y[k - (e - 1)] = q[k + 1]
          BY <3>1, <5>1
        <5> QED BY <4>1, <4>3, <5>2
      <4>4. k \in Nat /\ e \in Nat
        BY <3>3
      <4> QED BY <4>2, <4>3, <4>4
    <3> QED BY <3>1, <3>3, <3>4
  <2>7. \A k \in 1..Len(w) : w[k] = IF k < e THEN q[k] ELSE q[k + 1]
    BY <2>6
  <2>8. w = RemoveAt(q, e)
    OBVIOUS
  <2> HIDE DEF w
  <2>9. r \in Seq(Segment) /\ Len(r) = Len(q) /\ r # <<>>
    BY <2>5, <2>6, <2>8
  <2>10. \A k \in 1..Len(w) : r[k] = w[k]
    BY <2>5, <2>6, <2>8
  <2>11. r[Len(r)] = s
    BY <2>5, <2>6, <2>8, <2>9
  <2>12. ASSUME NEW k \in DOMAIN r PROVE r[k] = s \/ \E j \in DOMAIN q : r[k] = q[j] /\ k <= j
    <3>1. CASE k = Len(r)
      BY <2>11, <3>1
    <3>2. CASE k < e
      <4>1. k \in 1..Len(r) /\ k \in Nat
        BY <2>9
      <4>2. k \in 1..Len(w) /\ k \in 1..Len(q)
        BY <2>6, <2>9, <3>2, <4>1
      <4>3. w[k] = q[k]
        BY <2>7, <3>2, <4>2
      <4>4. r[k] = q[k] /\ k \in DOMAIN q /\ k <= k
        BY <2>10, <4>1, <4>2, <4>3
      <4> QED BY <4>4
    <3>3. CASE k >= e /\ k < Len(r)
      <4>1. k \in 1..Len(w) /\ k + 1 \in DOMAIN q /\ w[k] = q[k + 1] /\ k <= k + 1
        BY <2>6, <2>7, <2>9, <3>3
      <4> QED BY <2>10, <4>1
    <3>4. k \in 1..Len(r)
      BY <2>9
    <3> QED BY <3>1, <3>2, <3>3, <3>4, <2>9
  <2>13. (q # <<>> /\ q[1].kind = "Init") => r[1] = q[1]
    BY <2>3, <2>6, <2>7, <2>9, <2>10
  <2> QED BY <2>9, <2>12, <2>13 DEF r
<1> QED BY <1>1, <1>2, <1>3

StreamOK ==
    /\ output \in Seq(Segment) /\ Len(output) <= OutputCap
    /\ reader \in [Generations -> {"None", "Start", "Cut", "Done"}]
    /\ fwd \in {"Pop", "Send", "Done"} /\ held \in Segment \cup {None}
    /\ lead \in 0..MaxChanges + 1

\* A new encoder starts behind an empty queue.
LEMMA SpawnKeepsStream ==
    ASSUME StreamOK, Stream, gen \in Nat, gen + 1 \in Generations, SpawnEncoder, output' = <<>>,
           ReadersJoined, UNCHANGED <<fwd, held, lead>>
    PROVE  StreamOK' /\ Stream'
<1> USE ScreenPipelineAssumption
<1>1. gen' = gen + 1 /\ reader' = [reader EXCEPT ![gen + 1] = "Start"]
  BY DEF SpawnEncoder
<1>2. StreamOK'
  BY <1>1 DEF StreamOK
<1>3. reader'[gen'] = "Start" /\ \A g \in Generations : g # gen' => reader'[g] = reader[g]
  BY <1>1 DEF StreamOK
<1>4. held # None => held.gen \in Nat
  BY DEF StreamOK, Segment, Generations
<1>5. Queued'
  BY DEF Queued
<1>6. Forwarding' /\ InitFirst'
  BY <1>1, <1>3, <1>4 DEF Forwarding, InitFirst, Stream, StreamOK
<1>7. Readers'
  BY <1>1, <1>3 DEF Readers, ReadersJoined, Stream, StreamOK, Generations
<1> QED BY <1>2, <1>5, <1>6, <1>7 DEF Stream

\* The reader of the running encoder pushes what it has cut.
LEMMA PushKeepsStream ==
    ASSUME StreamOK, Stream, gen \in Nat, NEW g \in Generations, ReaderPush(g)
    PROVE  StreamOK' /\ Stream'
<1> USE ScreenPipelineAssumption
<1> DEFINE s == [kind |-> IF reader[g] = "Start" THEN "Init" ELSE "Fragment", gen |-> g]
<1>1. /\ reader[g] \in {"Start", "Cut"} /\ output' = PushSegment(output, s)
      /\ reader' = [reader EXCEPT ![g] = "Cut"]
      /\ UNCHANGED <<gen, fwd, held, lead>>
  BY DEF ReaderPush, encoder, server
<1>2. g = gen
  <2>1. g \in Nat /\ (g < gen => reader[g] = "Done") /\ (g > gen => reader[g] = "None")
    BY DEF Stream, Readers, Generations
  <2> QED BY <1>1, <2>1
<1>3. /\ output \in Seq(Segment) /\ Len(output) <= OutputCap
      /\ \A k \in DOMAIN output : output[k].gen = gen /\ (output[k].kind = "Init" => k = 1)
  BY DEF StreamOK, Stream, Queued
<1>4. s \in Segment
  BY DEF Segment
<1>5. s.gen = gen /\ (s.kind = "Init" <=> reader[g] = "Start") /\ (s.kind = "Init" => s = InitOf(gen))
  BY <1>2 DEF InitOf
<1> HIDE DEF s
<1>6. /\ output' \in Seq(Segment) /\ Len(output') <= OutputCap /\ output' # <<>>
      /\ \A k \in DOMAIN output' : output'[k] = s \/ \E j \in DOMAIN output : output'[k] = output[j] /\ k <= j
      /\ (output # <<>> /\ output[1].kind = "Init") => output'[1] = output[1]
  BY <1>1, <1>3, <1>4, SegmentPushed
<1>7. StreamOK'
  BY <1>1, <1>6 DEF StreamOK
<1>8. reader'[gen] = "Cut" /\ \A h \in Generations : h # gen => reader'[h] = reader[h]
  BY <1>1, <1>2 DEF StreamOK
<1>9. Readers'
  BY <1>1, <1>8 DEF Stream, Readers
<1>10. CASE reader[g] = "Start"
  <2>1. output = <<>>
    BY <1>10 DEF Stream, Queued
  <2>3. output' = <<s>>
    <3>1. Len(output) < OutputCap
      BY <2>1
    <3>2. output' = Append(output, s)
      BY <1>1, <3>1 DEF PushSegment
    <3> QED BY <2>1, <3>2
  <2>4. Queued'
    BY <1>1, <1>2, <1>5, <1>8, <1>9, <2>3 DEF Queued, Readers
  <2>5. Forwarding' /\ InitFirst'
    BY <1>1, <1>2, <1>5, <1>10, <2>3 DEF Stream, Forwarding, InitFirst
  <2> QED BY <1>7, <1>9, <2>4, <2>5 DEF Stream
<1>11. CASE reader[g] = "Cut"
  <2>1. s.kind # "Init"
    BY <1>5, <1>11
  <2>2. ASSUME NEW k \in DOMAIN output', output'[k].kind = "Init" PROVE k = 1 /\ output # <<>> /\ output[1].kind = "Init"
    <3>1. PICK j \in DOMAIN output : output'[k] = output[j] /\ k <= j
      BY <1>6, <2>1, <2>2
    <3>2. j = 1
      BY <1>3, <2>2, <3>1
    <3>3. k \in 1..Len(output')
      BY <1>6
    <3> QED BY <1>3, <2>2, <3>1, <3>2, <3>3
  <2>3. \A k \in DOMAIN output' : output'[k].gen = gen
    BY <1>3, <1>5, <1>6
  <2>4. \A h \in Generations : reader'[h] # "Start"
    BY <1>1, <1>2, <1>8, <1>9 DEF Readers, Generations
  <2>5. Queued'
    BY <1>1, <2>2, <2>3, <2>4 DEF Queued
  <2>6. Forwarding'
    BY <1>1 DEF Stream, Forwarding
  <2>7. InitFirst'
    <3>1. \/ fwd = "Done" \/ lead = gen \/ held = InitOf(gen)
          \/ output # <<>> /\ output[1] = InitOf(gen)
      BY <1>2, <1>11 DEF Stream, InitFirst, Generations
    <3>2. (output # <<>> /\ output[1] = InitOf(gen)) => output'[1] = InitOf(gen)
      BY <1>6 DEF InitOf
    <3>3. output'[1].kind = "Init" => output # <<>> /\ output[1].kind = "Init"
      <4>1. 1 \in DOMAIN output'
        BY <1>6
      <4> QED BY <2>2, <4>1
    <3>4. gen > 0 /\ gen \in Generations
      BY <1>2 DEF Generations
    <3>5. (output'[1].kind = "Init") => lead < gen /\ (held # None => held.gen < gen)
      BY <3>3, <3>4 DEF Stream, InitFirst
    <3> QED BY <1>1, <1>6, <1>8, <3>1, <3>2, <3>5 DEF InitFirst, InitOf
  <2> QED BY <1>7, <1>9, <2>5, <2>6, <2>7 DEF Stream
<1> QED BY <1>1, <1>10, <1>11

LEMMA EofKeepsStream ==
    ASSUME StreamOK, Stream, gen \in Nat, NEW g \in Generations, ReaderEof(g)
    PROVE  StreamOK' /\ Stream'
<1>1. /\ reader[g] \in {"Start", "Cut"} /\ reader' = [reader EXCEPT ![g] = "Done"]
      /\ UNCHANGED <<output, gen, fwd, held, lead>>
  BY DEF ReaderEof, encoder, server
<1>2. StreamOK'
  BY <1>1 DEF StreamOK
<1>3. reader'[g] = "Done" /\ \A h \in Generations : h # g => reader'[h] = reader[h]
  BY <1>1 DEF StreamOK
<1>4. g = gen
  <2>1. g \in Nat /\ (g < gen => reader[g] = "Done") /\ (g > gen => reader[g] = "None")
    BY DEF Stream, Readers, Generations
  <2> QED BY <1>1, <2>1
<1>5. Readers' /\ Queued' /\ Forwarding'
  BY <1>1, <1>3, <1>4 DEF Stream, Readers, Queued, Forwarding, Generations
<1>6. InitFirst'
  BY <1>1, <1>3, <1>4 DEF Stream, InitFirst
<1> QED BY <1>2, <1>5, <1>6 DEF Stream

LEMMA ForwarderKeepsStream ==
    ASSUME StreamOK, Stream, gen \in Nat, Forwarder
    PROVE  StreamOK' /\ Stream'
<1> USE ScreenPipelineAssumption
<1>1. /\ UNCHANGED <<gen, reader>>
      /\ \A k \in DOMAIN output : output[k].gen = gen /\ (output[k].kind = "Init" => k = 1)
  BY DEF Forwarder, ForwarderPop, ForwarderStops, ForwardSegment, ForwardClosed, encoder, Stream, Queued
<1>2. \A s \in Segment : s.gen \in Nat \ {0} /\ s.kind \in {"Init", "Fragment"}
                         /\ (s.kind = "Init" => s = InitOf(s.gen))
  BY DEF Segment, Generations, InitOf
<1>3. held # None => held \in Segment
  BY DEF StreamOK
<1>4. CASE ForwarderPop
  <2>1. /\ fwd = "Pop" /\ fwd' = "Send" /\ output # <<>> /\ UNCHANGED lead
        /\ held' = Head(output) /\ output' = Tail(output)
    BY <1>4 DEF ForwarderPop, server
  <2>2. /\ output' \in Seq(Segment) /\ Len(output') = Len(output) - 1
        /\ \A k \in DOMAIN output' : k + 1 \in DOMAIN output /\ output'[k] = output[k + 1]
    BY <2>1 DEF StreamOK
  <2>3. held' = output[1] /\ 1 \in DOMAIN output /\ output[1] \in Segment
    BY <2>1 DEF StreamOK
  <2>4. held' \in Segment /\ held'.gen = gen /\ gen > 0 /\ held' # None
    BY <1>1, <1>2, <2>3
  <2>5. StreamOK'
    BY <1>1, <2>1, <2>2, <2>4 DEF StreamOK
  <2>6. \A k \in DOMAIN output' : output'[k].gen = gen /\ output'[k].kind # "Init"
    <3> SUFFICES ASSUME NEW k \in DOMAIN output' PROVE output'[k].gen = gen /\ output'[k].kind # "Init"
      OBVIOUS
    <3>1. k \in Nat \ {0} /\ k + 1 \in DOMAIN output /\ output'[k] = output[k + 1]
      BY <2>2
    <3> QED BY <1>1, <3>1
  <2>7. held = None
    BY <2>1 DEF Stream, Forwarding
  <2>8. \A g \in Generations : reader[g] # "Start"
    BY <2>1 DEF Stream, Queued
  <2>9. lead = gen \/ held' = InitOf(gen)
    <3>1. InitOf(gen) # None
      BY <2>3, <2>4 DEF Segment, InitOf
    <3>2. lead = gen \/ held = InitOf(gen) \/ output[1] = InitOf(gen)
      BY <2>1, <2>4 DEF Stream, InitFirst
    <3> QED BY <2>3, <2>7, <3>1, <3>2
  <2>10. held'.kind = "Init" => lead < gen
    BY <2>1, <2>3, <2>4 DEF Stream, InitFirst
  <2>11. Queued'
    BY <1>1, <2>6, <2>8 DEF Queued
  <2>12. Forwarding'
    <3>1. held'.kind = "Fragment" => lead = gen
      BY <2>9 DEF InitOf
    <3> QED BY <1>1, <2>1, <2>4, <2>10, <3>1 DEF Stream, Forwarding
  <2>13. InitFirst'
    <3>1. output' # <<>> => output'[1].kind # "Init"
      <4>1. output' # <<>> => 1 \in DOMAIN output'
        BY <2>2
      <4> QED BY <2>6, <4>1
    <3>2. gen > 0 => reader[gen] # "Start"
      <4>1. gen > 0 => gen \in Generations
        BY <2>3, <2>4 DEF Segment
      <4> QED BY <2>8, <4>1
    <3> QED BY <1>1, <2>1, <2>9, <3>1, <3>2 DEF InitFirst
  <2>14. Readers'
    BY <1>1 DEF Stream, Readers
  <2> QED BY <2>5, <2>11, <2>12, <2>13, <2>14 DEF Stream
<1>5. CASE ForwarderStops
  <2>1. fwd = "Pop" /\ fwd' = "Done" /\ UNCHANGED <<output, held, lead>>
    BY <1>5 DEF ForwarderStops, server
  <2> QED BY <1>1, <2>1 DEF StreamOK, Stream, Readers, Queued, Forwarding, InitFirst
<1>6. CASE ForwardClosed
  <2>1. fwd = "Send" /\ fwd' = "Done" /\ held' = None /\ UNCHANGED <<output, lead>>
    BY <1>6 DEF ForwardClosed, ClosedStops, server
  <2> QED BY <1>1, <2>1 DEF StreamOK, Stream, Readers, Queued, Forwarding, InitFirst
<1>7. CASE ForwardSegment
  <2>1. /\ fwd = "Send" /\ held' = None /\ UNCHANGED output /\ held # None
        /\ \/ fwd' = "Pop" /\ lead' = IF held.kind = "Init" THEN held.gen ELSE lead
           \/ held.kind = "Fragment" /\ fwd' = "Pop" /\ lead' = lead
           \/ fwd' = "Done" /\ lead' = lead
    BY <1>7 DEF ForwardSegment, Stream, Forwarding
  <2>2. /\ held \in Segment /\ held.gen \in 1..MaxChanges + 1 /\ held.gen <= gen
        /\ held.kind \in {"Init", "Fragment"}
        /\ held.kind = "Init" => held.gen > lead
        /\ lead <= gen /\ lead \in 0..MaxChanges + 1
    BY <2>1, <1>3 DEF Segment, Generations, Stream, Forwarding, StreamOK
  <2>3. /\ lead' \in {lead, held.gen} /\ fwd' \in {"Pop", "Done"}
        /\ held = InitOf(gen) => fwd' = "Done" \/ lead' = gen
        /\ lead = gen => lead' = gen
    BY <2>1, <2>2 DEF InitOf
  <2>4. StreamOK'
    BY <1>1, <2>1, <2>2, <2>3 DEF StreamOK
  <2>5. Readers' /\ Queued' /\ Forwarding'
    BY <1>1, <2>1, <2>2, <2>3 DEF Stream, Readers, Queued, Forwarding
  <2>6. InitFirst'
    BY <1>1, <2>1, <2>2, <2>3 DEF Stream, InitFirst
  <2> QED BY <2>4, <2>5, <2>6 DEF Stream
<1> QED BY <1>4, <1>5, <1>6, <1>7 DEF Forwarder

LEMMA StreamKept ==
    ASSUME StreamOK, Stream, RestartOK, Restarts, [Next]_vars
    PROVE  StreamOK' /\ Stream'
<1>1. gen \in Nat
  BY ScreenPipelineAssumption DEF RestartOK
<1>2. CASE UNCHANGED streaming
  BY <1>2 DEF streaming, StreamOK, Stream, Readers, Queued, Forwarding, InitFirst
<1>3. CASE FirstSpawn
  <2>1. gen = 0 /\ UNCHANGED <<output, fwd, held, lead>>
    BY <1>3 DEF FirstSpawn, Restarts, server
  <2>2. output = <<>>
    <3> SUFFICES ASSUME output # <<>> PROVE FALSE
      OBVIOUS
    <3>1. 1 \in DOMAIN output /\ output[1] \in Segment
      BY DEF StreamOK
    <3>2. output[1].gen = 0
      BY <2>1, <3>1 DEF Stream, Queued
    <3> QED BY <3>1, <3>2 DEF Segment, Generations
  <2>3. ReadersJoined
    BY <2>1 DEF ReadersJoined, Stream, Readers, Generations
  <2>4. gen + 1 \in Generations
    BY <2>1, ScreenPipelineAssumption DEF Generations
  <2>5. CASE SpawnEncoder
    BY <1>1, <2>1, <2>2, <2>3, <2>4, <2>5, SpawnKeepsStream
  <2>6. CASE UNCHANGED <<encoder, reader>>
    BY <1>2, <2>1, <2>6 DEF encoder, streaming
  <2> QED BY <1>3, <2>5, <2>6 DEF FirstSpawn
<1>4. CASE RestartSpawn
  <2>1. ctl = "Join" /\ ReadersJoined /\ output' = <<>> /\ UNCHANGED <<fwd, held, lead>>
    BY <1>4 DEF RestartSpawn, server
  <2>2. gen > 0 /\ gen + 1 \in Generations
    BY <2>1, RestartFits
  <2>3. CASE SpawnEncoder
    BY <1>1, <2>1, <2>2, <2>3, SpawnKeepsStream
  <2>4. CASE UNCHANGED <<encoder, reader>>
    <3>1. UNCHANGED <<gen, reader>>
      BY <2>4 DEF encoder
    <3>2. \A g \in Generations : reader[g] \in {"None", "Done"}
      BY <2>1 DEF ReadersJoined
    <3>3. gen \in Generations
      BY <1>1, <2>2 DEF RestartOK, Generations
    <3>4. StreamOK'
      BY <2>1, <3>1, ScreenPipelineAssumption DEF StreamOK
    <3> QED BY <2>1, <3>1, <3>2, <3>3, <3>4 DEF Stream, Readers, Queued, Forwarding, InitFirst
  <2> QED BY <1>4, <2>3, <2>4 DEF RestartSpawn
<1>5. ASSUME NEW g \in Generations, ReaderPush(g) \/ ReaderEof(g) PROVE StreamOK' /\ Stream'
  BY <1>1, <1>5, PushKeepsStream, EofKeepsStream
<1>6. CASE Forwarder
  BY <1>1, <1>6, ForwarderKeepsStream
<1> QED BY <1>2, <1>3, <1>4, <1>5, <1>6, Frame

-----------------------------------------------------------------------------
(* The flags, and the queues that carry no order of interest.              *)

\* A flag is set or left alone, the child starts or ends.
LEMMA Switches ==
    ASSUME [Next]_vars
    PROVE  /\ stop' = stop \/ stop' = TRUE
           /\ failed' = failed \/ failed' = TRUE
           /\ token' = token \/ token' = TRUE
           /\ child' = child \/ child' = TRUE \/ child' = FALSE
           /\ rx_open' = rx_open \/ rx_open' = FALSE
<1> USE DEF flags, encoder, server
<1>1. CASE ScreenChange
  BY <1>1 DEF ScreenChange
<1>2. CASE BridgeStop
  BY <1>2 DEF BridgeStop
<1>3. CASE Trigger
  BY <1>3 DEF Trigger
<1>4. CASE OpenMonitor
  BY <1>4 DEF OpenMonitor, ReportOnce
<1>5. CASE CaptureFrame
  BY <1>5 DEF CaptureFrame
<1>6. CASE PushFrame
  BY <1>6 DEF PushFrame, Reacquire, ReportOnce
<1>7. CASE CaptureError
  BY <1>7 DEF CaptureError, Reacquire, ReportOnce
<1>8. CASE CaptureStops
  BY <1>8 DEF CaptureStops
<1>9. CASE FirstSpawn
  BY <1>9 DEF FirstSpawn, SpawnEncoder, ReportOnce
<1>10. CASE PollRequest
  BY <1>10 DEF PollRequest
<1>11. CASE RestartWait
  BY <1>11 DEF RestartWait
<1>12. CASE RestartSpawn
  BY <1>12 DEF RestartSpawn, SpawnEncoder, ReportOnce
<1>13. CASE ClearRequest
  BY <1>13 DEF ClearRequest
<1>14. CASE FeedFrame
  BY <1>14 DEF FeedFrame
<1>15. CASE FeedFails
  BY <1>15 DEF FeedFails, ReportOnce
<1>16. CASE Teardown
  BY <1>16 DEF Teardown
<1>17. CASE EncoderExits
  BY <1>17 DEF EncoderExits
<1>18. ASSUME NEW g \in Generations, ReaderPush(g) \/ ReaderEof(g)
      PROVE  UNCHANGED <<stop, failed, token, child, rx_open>>
  BY <1>18 DEF ReaderPush, ReaderEof
<1>19. CASE ForwarderPop
  BY <1>19 DEF ForwarderPop
<1>20. CASE ForwarderStops
  BY <1>20 DEF ForwarderStops
<1>21. CASE ForwardSegment
  BY <1>21 DEF ForwardSegment
<1>22. CASE ForwardClosed
  BY <1>22 DEF ForwardClosed, ClosedStops
<1>23. CASE ConsumerDrain
  BY <1>23 DEF ConsumerDrain
<1>24. CASE ConsumerClose
  BY <1>24 DEF ConsumerClose
<1>25. CASE UNCHANGED vars
  BY <1>25 DEF vars
<1> QED BY <1>1, <1>2, <1>3, <1>4, <1>5, <1>6, <1>7, <1>8, <1>9, <1>10, <1>11, <1>12,
           <1>13, <1>14, <1>15, <1>16, <1>17, <1>18, <1>19, <1>20, <1>21, <1>22, <1>23,
           <1>24, <1>25
        DEF Next, CaptureThread, Controller, Forwarder

SwitchOK ==
    /\ stop \in BOOLEAN /\ failed \in BOOLEAN /\ token \in BOOLEAN
    /\ child \in BOOLEAN /\ rx_open \in BOOLEAN

LEMMA SwitchesKept ==
    ASSUME SwitchOK, [Next]_vars
    PROVE  SwitchOK'
<1> QED BY Switches, Zenon DEF SwitchOK

QueueOK ==
    /\ frames \in Seq({"Frame"}) /\ Len(frames) <= FrameCap
    /\ channel \in Seq(Segment) /\ Len(channel) <= ChannelCap

LEMMA QueuesKept ==
    ASSUME QueueOK, StreamOK, Stream, [Next]_vars
    PROVE  QueueOK'
<1> USE ScreenPipelineAssumption
<1>1. frames' \in Seq({"Frame"}) /\ Len(frames') <= FrameCap
  <2> USE DEF QueueOK
  <2>1. CASE UNCHANGED frames
    BY <2>1
  <2>2. CASE PushFrame
    <3>1. frames' = Append(IF Len(frames) >= FrameCap THEN Tail(frames) ELSE frames, "Frame")
      BY <2>2 DEF PushFrame, PushDropOldest
    <3>2. CASE Len(frames) >= FrameCap
      <4>1. frames # <<>>
        BY <3>2
      <4>2. Tail(frames) \in Seq({"Frame"}) /\ Len(Tail(frames)) = Len(frames) - 1
        BY <4>1
      <4> QED BY <3>1, <3>2, <4>2
    <3>3. CASE ~(Len(frames) >= FrameCap)
      BY <3>1, <3>3
    <3> QED BY <3>2, <3>3
  <2>3. CASE frames # <<>> /\ frames' = Tail(frames)
    BY <2>3
  <2>4. CASE FeedFrame \/ FeedFails
    BY <2>1, <2>3, <2>4 DEF FeedFrame, FeedFails
  <2> QED BY <2>1, <2>2, <2>4, Frame
<1>2. channel' \in Seq(Segment) /\ Len(channel') <= ChannelCap
  <2> USE DEF QueueOK
  <2>1. CASE UNCHANGED channel
    BY <2>1
  <2>2. CASE ForwardSegment
    <3>1. held \in Segment
      BY <2>2 DEF ForwardSegment, Stream, Forwarding, StreamOK
    <3>2. CASE Len(channel) < ChannelCap /\ channel' = Append(channel, held)
      BY <3>1, <3>2
    <3> QED BY <2>1, <2>2, <3>2 DEF ForwardSegment
  <2>3. CASE ConsumerDrain
    BY <2>3 DEF ConsumerDrain
  <2>4. CASE ConsumerClose
    BY <2>4 DEF ConsumerClose
  <2> QED BY <2>1, <2>2, <2>3, <2>4, Frame
<1> QED BY <1>1, <1>2 DEF QueueOK

-----------------------------------------------------------------------------
(* The theorems.                                                           *)

LEMMA TypeParts ==
    Reported => (TypeOK <=> (CaptureOK /\ RestartOK /\ StreamOK /\ SwitchOK /\ QueueOK))
<1> SUFFICES ASSUME Reported
             PROVE  TypeOK <=> (CaptureOK /\ RestartOK /\ StreamOK /\ SwitchOK /\ QueueOK)
  OBVIOUS
<1>1. errors \in 0..2
  BY DEF Reported
<1>2. /\ ({stop, failed, token, child, rx_open} \subseteq BOOLEAN) <=> SwitchOK
      /\ ({expected, resolution_request, current, target} \subseteq Sizes \cup {None}) <=>
            /\ expected \in Sizes \cup {None} /\ resolution_request \in Sizes \cup {None}
            /\ current \in Sizes \cup {None} /\ target \in Sizes \cup {None}
  BY Zenon DEF SwitchOK
<1> QED BY <1>1, <1>2, Zenon DEF TypeOK, CaptureOK, RestartOK, StreamOK, QueueOK

LEMMA IInvInit == Init => IInv
<1> SUFFICES ASSUME Init PROVE IInv
  OBVIOUS
<1> USE ScreenPipelineAssumption DEF Init
<1>1. Reported /\ Counting /\ CaptureOK
  BY DEF Reported, Counting, CaptureOK
<1>2. RestartOK /\ Restarts
  BY DEF RestartOK, Restarts, Flag, Aimed, Seen
<1>3. StreamOK /\ Stream
  BY DEF StreamOK, Stream, Readers, Queued, Forwarding, InitFirst, Generations
<1>4. SwitchOK
  BY DEF SwitchOK
<1>5. QueueOK
  BY DEF QueueOK
<1> QED BY <1>1, <1>2, <1>3, <1>4, <1>5, TypeParts DEF IInv

LEMMA NextKeeps == IInv /\ [Next]_vars => IInv'
<1> SUFFICES ASSUME IInv, [Next]_vars PROVE IInv'
  OBVIOUS
<1>1. /\ CaptureOK /\ RestartOK /\ StreamOK /\ SwitchOK /\ QueueOK
      /\ Counting /\ Reported /\ Restarts /\ Stream
  BY TypeParts DEF IInv
<1>2. CaptureOK' /\ Counting' /\ Reported' /\ RestartOK' /\ Restarts'
  BY <1>1, CountingKept, ReportedKept, RestartsKept
<1>3. StreamOK' /\ Stream' /\ SwitchOK' /\ QueueOK'
  BY <1>1, StreamKept, SwitchesKept, QueuesKept
<1>4. TypeOK'
  BY <1>2, <1>3, TypeParts, PTL
<1> QED BY <1>2, <1>3, <1>4 DEF IInv

LEMMA IInvHolds == Spec => []IInv
<1> QED BY IInvInit, NextKeeps, PTL DEF Spec

\* However the capture thread, the controller, the readers and the forwarder
\* interleave, and whatever fails or is stopped meanwhile: the queues keep to
\* their capacities, push_or never evicts the init segment of the running
\* encoder, and report_once sends one error.
THEOREM PipelineSafe == Spec => []ScreenInv
<1>1. IInv => InitSurvives
  <2> SUFFICES ASSUME IInv, gen > 0, reader[gen] = "Cut", fwd # "Done"
               PROVE  \/ lead = gen
                      \/ \E s \in Range(output) \cup {held} : s = InitOf(gen)
    BY DEF InitSurvives, InitOf
  <2>1. lead = gen \/ held = InitOf(gen) \/ (output # <<>> /\ output[1] = InitOf(gen))
    BY DEF IInv, Stream, InitFirst
  <2>2. CASE output # <<>> /\ output[1] = InitOf(gen)
    <3>1. 1 \in DOMAIN output
      BY <2>2 DEF IInv, TypeOK
    <3> QED BY <2>2, <3>1 DEF Range
  <2> QED BY <2>1, <2>2
<1>2. IInv => OneError
  BY DEF IInv, Reported, OneError
<1>3. IInv => ScreenInv
  BY <1>1, <1>2 DEF IInv, ScreenInv
<1> QED BY <1>3, IInvHolds, PTL

\* What forward_segment sends is an init newer than any before it, or a
\* fragment of the init sent last: restarts, lag and a failed restart never
\* put a fragment in front of a receiver that lacks its init.
THEOREM StreamDecodes == Spec => DecodableStream
<1>1. ASSUME IInv, [Next]_vars, Len(channel') > Len(channel)
      PROVE  LET s == Last(channel')
             IN IF s.kind = "Init" THEN s.gen > lead ELSE s.gen = lead
  <2>1. channel \in Seq(Segment)
    BY <1>1 DEF IInv, TypeOK
  <2>2. ForwardSegment
    <3>1. CASE UNCHANGED channel
      BY <1>1, <2>1, <3>1
    <3>2. CASE ConsumerDrain
      BY <1>1, <2>1, <3>2 DEF ConsumerDrain
    <3>3. CASE ConsumerClose
      BY <1>1, <2>1, <3>3 DEF ConsumerClose
    <3> QED BY <1>1, <3>1, <3>2, <3>3, Frame
  <2>3. channel' = Append(channel, held)
    BY <1>1, <2>1, <2>2 DEF ForwardSegment
  <2>4. held # None /\ held \in Segment
    BY <1>1, <2>2 DEF ForwardSegment, IInv, TypeOK, Stream, Forwarding
  <2>5. Last(channel') = held
    BY <2>1, <2>3, <2>4 DEF Last
  <2>6. IF held.kind = "Init" THEN held.gen > lead ELSE held.gen = lead
    BY <1>1, <2>4 DEF IInv, Stream, Forwarding, Segment
  <2> QED BY <2>5, <2>6
<1>2. IInv /\ [Next]_vars =>
        [Len(channel') > Len(channel) =>
           LET s == Last(channel')
           IN IF s.kind = "Init" THEN s.gen > lead ELSE s.gen = lead]_vars
  BY <1>1
<1> QED BY <1>2, IInvHolds, PTL DEF Spec, DecodableStream

=============================================================================

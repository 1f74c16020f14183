--------------------------- MODULE ScreenPipeline ---------------------------
(***************************************************************************)
(* The X11 screen pipeline (src/screen/bridge/): the capture thread feeds  *)
(* raw frames through a drop-oldest queue to the controller, which owns    *)
(* the ffmpeg child and restarts it when the resolution changes; one       *)
(* stdout reader per ffmpeg generation cuts the output into an             *)
(* initialisation segment followed by fragments; the forwarder moves those *)
(* from the output queue into the media server's channel.                  *)
(*                                                                         *)
(* A frame is opaque, a segment is its kind and generation.  Whether       *)
(* a capture, a spawn or the child itself fails is a choice.  The child    *)
(* always dies of the SIGKILL that ends the grace period, and it reads its *)
(* stdin while it lives, so that a write to it completes.                  *)
(***************************************************************************)
EXTENDS Naturals, Sequences, SequencesExt

CONSTANTS
    Sizes,        \* monitor resolutions
    Native,       \* the one the monitor has at the start
    FrameCap,     \* FRAME_QUEUE_CAPACITY
    OutputCap,    \* OUTPUT_QUEUE_CAPACITY
    ChannelCap,   \* SERVER_CHANNEL_CAPACITY
    MaxFailures,  \* MAX_CONSECUTIVE_FAILURES
    MaxChanges,   \* bound on the changes of the monitor's resolution
    None

\* Every restart answers a change, so this many ffmpeg processes are enough.
Generations == 1 .. MaxChanges + 1

Segment == [kind : {"Init", "Fragment"}, gen : Generations]

ASSUME ScreenPipelineAssumption ==
    /\ Native \in Sizes /\ None \notin Sizes \cup Segment
    /\ {FrameCap, OutputCap, ChannelCap, MaxFailures} \subseteq Nat \ {0}
    /\ MaxChanges \in Nat

VARIABLES
    screen, changes,              \* the monitor's resolution; changes so far
    cap, expected, capture_failures, reacquire_failures, \* capture thread
    frames, resolution_request, output,       \* shared by the threads
    stop, failed, errors, token,  \* flags; StreamErrors sent; Shutdown
    ctl, target,                  \* controller thread
    gen, current, child,          \* ffmpeg: generation, size, is it alive
    reader,                       \* stdout reader of each generation
    fwd, held,                    \* forwarder thread, its segment in hand
    channel, rx_open,             \* the media server's live channel
    lead                          \* generation of the last init sent on it

monitor == <<screen, changes>>
capture == <<cap, expected, capture_failures, reacquire_failures>>
flags   == <<stop, failed, errors>>
encoder == <<gen, current, child>>
server  == <<channel, rx_open, lead>>
vars    == <<monitor, capture, frames, resolution_request, output, flags, token,
             ctl, target, encoder, reader, fwd, held, server>>

\* start_pipeline: the first ffmpeg is sized by the monitor's resolution.
Init ==
    /\ screen = Native /\ changes = 0
    /\ cap = "Open" /\ expected = None
    /\ capture_failures = 0 /\ reacquire_failures = 0
    /\ frames = <<>> /\ resolution_request = None /\ output = <<>>
    /\ stop = FALSE /\ failed = FALSE /\ errors = 0 /\ token = FALSE
    /\ ctl = "Spawn" /\ target = screen
    /\ gen = 0 /\ current = None /\ child = FALSE
    /\ reader = [g \in Generations |-> "None"]
    /\ fwd = "Pop" /\ held = None
    /\ channel = <<>> /\ rx_open = TRUE /\ lead = 0

TeardownRequested == stop \/ token

\* report_once: one StreamError per pipeline, whichever thread fails first.
ReportOnce ==
    /\ errors' = IF failed THEN errors ELSE errors + 1
    /\ failed' = TRUE /\ stop' = TRUE

\* BoundedDropOldest.push
PushDropOldest(q, limit, x) == Append(IF Len(q) >= limit THEN Tail(q) ELSE q, x)

\* push_or with the fragments evictable: the init segment stays buffered.
PushSegmentOldest(q, s) == PushDropOldest(q, OutputCap, s)
PushSegment(q, s) ==
    LET evict == SelectInSeq(q, LAMBDA b : b.kind = "Fragment")
    IN CASE Len(q) < OutputCap -> Append(q, s)
         [] Len(q) >= OutputCap /\ evict # 0 -> Append(RemoveAt(q, evict), s)
         [] OTHER -> q

-----------------------------------------------------------------------------
(* The monitor and the requests from outside.  Once the pipeline is being  *)
(* torn down nobody looks at the monitor, nor, after stop, at the token:   *)
(* such changes are left out.                                              *)

ScreenChange ==
    /\ changes < MaxChanges /\ ~TeardownRequested
    /\ screen' \in Sizes \ {screen} /\ changes' = changes + 1
    /\ UNCHANGED <<capture, frames, resolution_request, output, flags, token, ctl, target,
                   encoder, reader, fwd, held, server>>

\* ScreenBridge.stop: a new source was selected, or the backend ends.
BridgeStop ==
    /\ ~stop /\ stop' = TRUE
    /\ UNCHANGED <<monitor, capture, frames, resolution_request, output, failed, errors, token,
                   ctl, target, encoder, reader, fwd, held, server>>

Trigger ==
    /\ ~TeardownRequested /\ token' = TRUE
    /\ UNCHANGED <<monitor, capture, frames, resolution_request, output, flags, ctl, target,
                   encoder, reader, fwd, held, server>>

-----------------------------------------------------------------------------
(* The capture thread.                                                     *)

\* start_capture's thread opens the monitor.
OpenMonitor ==
    /\ cap = "Open"
    /\ \/ cap' = "Grab" /\ UNCHANGED flags
       \/ cap' = "Done" /\ ReportOnce
    /\ UNCHANGED <<monitor, expected, capture_failures, reacquire_failures, frames,
                   resolution_request, output, token, ctl, target, encoder, reader, fwd, held,
                   server>>

\* run_capture: one frame is taken and, when its size is news, a restart
\* requested; it is pushed only after that.
CaptureFrame ==
    /\ cap = "Grab" /\ ~TeardownRequested
    /\ expected' = screen /\ capture_failures' = 0
    /\ resolution_request' = IF expected = screen THEN resolution_request ELSE screen
    /\ cap' = "Push"
    /\ UNCHANGED <<monitor, reacquire_failures, frames, output, flags, token, ctl, target,
                   encoder, reader, fwd, held, server>>

\* Every MONITOR_REACQUIRE_INTERVAL-th turn ends with a re-acquire.  Its
\* failures are counted apart: a captured frame does not excuse them.
Reacquire ==
    \/ cap' = "Grab" /\ UNCHANGED <<reacquire_failures, flags>>
    \/ cap' = "Grab" /\ reacquire_failures' = 0 /\ UNCHANGED flags
    \/ /\ reacquire_failures' = reacquire_failures + 1
       /\ IF reacquire_failures' >= MaxFailures
          THEN cap' = "Done" /\ ReportOnce
          ELSE cap' = "Grab" /\ UNCHANGED flags

PushFrame ==
    /\ cap = "Push"
    /\ frames' = PushDropOldest(frames, FrameCap, "Frame")
    /\ Reacquire
    /\ UNCHANGED <<monitor, expected, capture_failures, resolution_request, output, token, ctl,
                   target, encoder, reader, fwd, held, server>>

CaptureError ==
    /\ cap = "Grab" /\ ~TeardownRequested
    /\ capture_failures' = capture_failures + 1
    /\ IF capture_failures' >= MaxFailures
       THEN cap' = "Done" /\ ReportOnce /\ UNCHANGED reacquire_failures
       ELSE Reacquire
    /\ UNCHANGED <<monitor, expected, frames, resolution_request, output, token, ctl, target,
                   encoder, reader, fwd, held, server>>

CaptureStops ==
    /\ cap = "Grab" /\ TeardownRequested
    /\ cap' = "Done"
    /\ UNCHANGED <<monitor, expected, capture_failures, reacquire_failures, frames,
                   resolution_request, output, flags, token, ctl, target, encoder, reader, fwd,
                   held, server>>

-----------------------------------------------------------------------------
(* The controller thread.                                                  *)

\* EncoderState::spawn for target, with its stdout reader.
SpawnEncoder ==
    /\ gen' = gen + 1 /\ current' = target /\ child' = TRUE
    /\ reader' = [reader EXCEPT ![gen + 1] = "Start"]

\* controller_loop before its loop: without a first encoder there is nothing
\* to tear down.
FirstSpawn ==
    /\ ctl = "Spawn"
    /\ \/ SpawnEncoder /\ ctl' = "Poll" /\ UNCHANGED flags
       \/ ReportOnce /\ ctl' = "Done" /\ UNCHANGED <<encoder, reader>>
    /\ target' = None
    /\ UNCHANGED <<monitor, capture, frames, resolution_request, output, token, fwd, held,
                   server>>

\* The head of the loop reads the request; ClearRequest erases it later.
PollRequest ==
    /\ ctl = "Poll"
    /\ ctl' = CASE TeardownRequested -> "Teardown"
                [] ~TeardownRequested /\ resolution_request = None -> "Feed"
                [] ~TeardownRequested /\ resolution_request = current -> "Clear"
                [] OTHER -> "Restart"
    /\ target' = IF ctl' = "Restart" THEN resolution_request ELSE None
    /\ UNCHANGED <<monitor, capture, frames, resolution_request, output, flags, token, encoder,
                   reader, fwd, held, server>>

\* restart: stdin is closed, and wait_graceful sees the child exit or kills it.
RestartWait ==
    /\ ctl = "Restart"
    /\ child' = FALSE /\ ctl' = "Join"
    /\ UNCHANGED <<monitor, capture, frames, resolution_request, output, flags, token, target,
                   gen, current, reader, fwd, held, server>>

\* restart: the old readers are joined, what they left is cleared.
ReadersIgnored == TRUE
ReadersJoined == \A g \in Generations : reader[g] \in {"None", "Done"}

RestartSpawn ==
    /\ ctl = "Join" /\ ReadersJoined
    /\ output' = <<>>
    /\ \/ SpawnEncoder /\ ctl' = "Clear" /\ UNCHANGED flags
       \/ ReportOnce /\ ctl' = "Teardown" /\ UNCHANGED <<encoder, reader>>
    /\ target' = None
    /\ UNCHANGED <<monitor, capture, frames, resolution_request, token, fwd, held, server>>

\* The request is erased, whatever it has become since it was read.
ClearRequest ==
    /\ ctl = "Clear"
    /\ resolution_request' = None /\ ctl' = "Poll"
    /\ UNCHANGED <<monitor, capture, frames, output, flags, token, target, encoder, reader, fwd,
                   held, server>>

\* try_exit, then one frame.  A child that has exited is noticed here, or by
\* the write that fails; during a teardown neither is an error.
FeedFrame ==
    /\ ctl = "Feed" /\ child
    /\ ctl' = "Poll"
    /\ frames' = IF frames = <<>> THEN frames ELSE Tail(frames)
    /\ UNCHANGED <<monitor, capture, resolution_request, output, flags, token, target, encoder,
                   reader, fwd, held, server>>

FeedFails ==
    /\ ctl = "Feed" /\ ~child
    /\ ctl' = "Teardown"
    /\ frames' \in {frames} \cup (IF frames = <<>> THEN {} ELSE {Tail(frames)})
    /\ IF TeardownRequested THEN UNCHANGED flags ELSE ReportOnce
    /\ UNCHANGED <<monitor, capture, resolution_request, output, token, target, encoder, reader,
                   fwd, held, server>>

\* teardown: EOF, wait, kill.
Teardown ==
    /\ ctl = "Teardown"
    /\ child' = FALSE /\ ctl' = "Done"
    /\ UNCHANGED <<monitor, capture, frames, resolution_request, output, flags, token, target,
                   gen, current, reader, fwd, held, server>>

-----------------------------------------------------------------------------
(* ffmpeg and the readers of its stdout.                                   *)

EncoderExits ==
    /\ child /\ child' = FALSE
    /\ UNCHANGED <<monitor, capture, frames, resolution_request, output, flags, token, ctl,
                   target, gen, current, reader, fwd, held, server>>

\* read_encoded: the first segment of a generation is its init.
ReaderPush(g) ==
    /\ reader[g] \in {"Start", "Cut"}
    /\ output' = PushSegment(output, [kind |-> IF reader[g] = "Start" THEN "Init" ELSE "Fragment",
                                      gen |-> g])
    /\ reader' = [reader EXCEPT ![g] = "Cut"]
    /\ UNCHANGED <<monitor, capture, frames, resolution_request, flags, token, ctl, target,
                   encoder, fwd, held, server>>

ReaderEof(g) ==
    /\ reader[g] \in {"Start", "Cut"} /\ ~(g = gen /\ child)
    /\ reader' = [reader EXCEPT ![g] = "Done"]
    /\ UNCHANGED <<monitor, capture, frames, resolution_request, output, flags, token, ctl,
                   target, encoder, fwd, held, server>>

-----------------------------------------------------------------------------
(* The forwarder thread and the consumer of its channel.                   *)

ForwarderPop ==
    /\ fwd = "Pop" /\ ~stop /\ output # <<>>
    /\ held' = Head(output) /\ output' = Tail(output) /\ fwd' = "Send"
    /\ UNCHANGED <<monitor, capture, frames, resolution_request, flags, token, ctl, target,
                   encoder, reader, server>>

\* Its loop watches the stop flag, which every failing thread sets, and not
\* the token.
ForwarderStopsOnToken ==
    /\ fwd = "Pop" /\ token
    /\ fwd' = "Done"
    /\ UNCHANGED <<monitor, capture, frames, resolution_request, output, flags, token, ctl,
                   target, encoder, reader, held, server>>

ForwarderStops ==
    /\ fwd = "Pop" /\ stop
    /\ fwd' = "Done"
    /\ UNCHANGED <<monitor, capture, frames, resolution_request, output, flags, token, ctl,
                   target, encoder, reader, held, server>>

\* forward_segment, when the consumer is there: a full channel costs a
\* fragment, but an init waits for room until the pipeline stops.
ForwardSegment ==
    /\ fwd = "Send" /\ rx_open
    /\ \/ /\ Len(channel) < ChannelCap
          /\ channel' = Append(channel, held) /\ fwd' = "Pop"
          /\ lead' = IF held.kind = "Init" THEN held.gen ELSE lead
       \/ /\ Len(channel) = ChannelCap
          /\ fwd' = IF held.kind = "Fragment" THEN "Pop" ELSE "Done"
          /\ held.kind = "Init" => stop
          /\ UNCHANGED <<channel, lead>>
    /\ held' = None
    /\ UNCHANGED <<monitor, capture, frames, resolution_request, output, flags, token, ctl,
                   target, encoder, reader, rx_open>>

\* forward_segment: the consumer has gone, and the session ends with it.
ClosedStops == fwd' = "Done" /\ stop' = TRUE

ForwardClosed ==
    /\ fwd = "Send" /\ ~rx_open
    /\ ClosedStops /\ held' = None
    /\ UNCHANGED <<monitor, capture, frames, resolution_request, output, failed, errors, token,
                   ctl, target, encoder, reader, server>>

ConsumerDrain ==
    /\ rx_open /\ channel # <<>>
    /\ channel' = Tail(channel)
    /\ UNCHANGED <<monitor, capture, frames, resolution_request, output, flags, token, ctl,
                   target, encoder, reader, fwd, held, rx_open, lead>>

ConsumerClose ==
    /\ rx_open /\ rx_open' = FALSE /\ channel' = <<>>
    /\ UNCHANGED <<monitor, capture, frames, resolution_request, output, flags, token, ctl,
                   target, encoder, reader, fwd, held, lead>>

-----------------------------------------------------------------------------

CaptureThread == \/ OpenMonitor \/ CaptureFrame \/ PushFrame \/ CaptureError
                 \/ CaptureStops

Controller == \/ FirstSpawn \/ PollRequest \/ RestartWait \/ RestartSpawn
              \/ ClearRequest \/ FeedFrame \/ FeedFails \/ Teardown

Forwarder == ForwarderPop \/ ForwarderStops \/ ForwardSegment \/ ForwardClosed

Next ==
    \/ ScreenChange \/ BridgeStop \/ Trigger
    \/ CaptureThread \/ Controller \/ Forwarder
    \/ EncoderExits
    \/ \E g \in Generations : ReaderPush(g) \/ ReaderEof(g)
    \/ ConsumerDrain \/ ConsumerClose

Spec == Init /\ [][Next]_vars

\* The operating system runs every thread.  ffmpeg, fed 30 frames a second,
\* goes on producing while it lives, and a dead child's stdout reaches EOF.
FairSpec ==
    /\ Spec
    /\ WF_vars(CaptureThread) /\ WF_vars(Controller) /\ WF_vars(Forwarder)
    /\ \A g \in Generations : WF_vars(ReaderPush(g)) /\ WF_vars(ReaderEof(g))

-----------------------------------------------------------------------------
(* Properties.                                                             *)

\* Types, and the three queues within their capacities (backpressure.rs).
TypeOK ==
    /\ screen \in Sizes /\ changes \in 0..MaxChanges
    /\ cap \in {"Open", "Grab", "Push", "Done"}
    /\ {expected, resolution_request, current, target} \subseteq Sizes \cup {None}
    /\ capture_failures \in 0..MaxFailures /\ reacquire_failures \in 0..MaxFailures
    /\ frames \in Seq({"Frame"}) /\ Len(frames) <= FrameCap
    /\ output \in Seq(Segment) /\ Len(output) <= OutputCap
    /\ {stop, failed, token, child, rx_open} \subseteq BOOLEAN /\ errors \in 0..2
    /\ ctl \in {"Spawn", "Poll", "Restart", "Join", "Clear", "Feed", "Teardown", "Done"}
    /\ gen \in 0..MaxChanges + 1
    /\ reader \in [Generations -> {"None", "Start", "Cut", "Done"}]
    /\ fwd \in {"Pop", "Send", "Done"} /\ held \in Segment \cup {None}
    /\ channel \in Seq(Segment) /\ Len(channel) <= ChannelCap
    /\ lead \in 0..MaxChanges + 1

\* What goes to the receiver can be decoded from its first byte: a fragment
\* follows the init of its own generation, and once a restart's init is sent
\* nothing of an older generation follows it.
DecodableStream ==
    [][Len(channel') > Len(channel) =>
         LET s == Last(channel')
         IN IF s.kind = "Init" THEN s.gen > lead ELSE s.gen = lead]_vars

\* However far the consumer lags, the init segment of the running encoder is
\* never the one that is dropped.
InitSurvives ==
    gen > 0 /\ reader[gen] = "Cut" /\ ctl \notin {"Teardown", "Done"} /\ fwd # "Done"
        => \/ lead = gen
           \/ \E s \in Range(output) \cup {held} : s = [kind |-> "Init", gen |-> gen]

\* One StreamError at most, though capture thread and controller may fail at
\* the same time; and a pipeline that reported one is stopping.
OneError == errors <= 1 /\ (errors = 1 => stop)

\* What holds of the pipeline's shared state at every moment: bounded queues,
\* an init segment that survives the lag, a single error report.
ScreenInv == TypeOK /\ InitSurvives /\ OneError

Halted == cap = "Done" /\ ctl = "Done" /\ fwd = "Done" /\ ~child
          /\ \A g \in Generations : reader[g] \in {"None", "Done"}

\* ScreenBridge.join returns: once stop is set every thread ends and no ffmpeg
\* is left, wherever each of them happened to be.
PipelineStops == stop ~> Halted

\* A client that goes away ends the session, although nobody tells the
\* controller about it.
ConsumerGoneStops == ~rx_open ~> (stop \/ token)

\* Either way the pipeline comes to its end.
PipelineEnds == PipelineStops /\ ConsumerGoneStops

\* "If the monitor resolution changes while streaming, the pipeline SHALL
\* restart the ffmpeg subprocess with the new -s WxH" (specs/05, 3.2): here, an
\* encoder that was restarted for one change is restarted for the next one the
\* capture thread sees, whenever that is.
EncoderFollowsScreen ==
    \A s \in Sizes :
        (expected = s /\ gen > 1) ~> (current = s \/ expected # s \/ TeardownRequested)

=============================================================================

---------------------------- MODULE PortalCapture ----------------------------
(***************************************************************************)
(* The Wayland variant of the screen pipeline: before its loop the         *)
(* controller thread (src/screen/bridge/controller.rs, prepare_portal)     *)
(* talks to the desktop portal (src/screen/portal.rs) and starts the       *)
(* PipeWire capture thread (src/screen/pipewire.rs), which tells it the    *)
(* negotiated format over a status channel.                                *)
(*                                                                         *)
(* Portal, user and PipeWire are the environment: they answer, refuse,     *)
(* fail or, where the code waits for the user, stay silent.  The encoder   *)
(* is its format; readers, output and forwarder are as in ScreenPipeline.  *)
(***************************************************************************)
EXTENDS Naturals, Sequences

CONSTANTS
    Formats,       \* size and pixel format a stream can be negotiated to
    MaxChanges,    \* bound on later renegotiations
    None

ASSUME PortalCaptureAssumption ==
    MaxChanges \in Nat /\ None \notin Formats

VARIABLES
    ctl,           \* the controller's step
    stop, errors,  \* the pipeline's stop flag; StreamErrors sent
    shutdown,      \* the token has been triggered
    heard,         \* AbortSignal.wait has been woken by it
    session,       \* the portal session: "None", "Open", "Closed" or "Dropped"
    pw, pw_stop,   \* the capture thread and its stop flag
    format,        \* the stream's format now
    format_sent,   \* it has been reported
    status,        \* status channel: formats, or "Err"
    frames,        \* the format of the frame in the queue, or None
    current,       \* the format the running encoder was started for
    changes

pipewire   == <<pw, format, format_sent>>
tokens     == <<shutdown, heard>>
portalVars == <<ctl, stop, errors, tokens, session, pipewire, pw_stop, status, frames, current,
                changes>>

PortalInit ==
    /\ ctl = "Create" /\ stop = FALSE /\ errors = 0
    /\ shutdown = FALSE /\ heard = FALSE
    /\ session = "None" /\ pw = "None" /\ pw_stop = FALSE
    /\ format = None /\ format_sent = FALSE /\ status = <<>>
    /\ frames = None /\ current = None /\ changes = 0

\* ScreenBridge.stop, or a forwarder that lost its consumer.
Stop ==
    /\ ~stop /\ stop' = TRUE
    /\ UNCHANGED <<ctl, errors, session, pipewire, pw_stop, status, frames, current, changes, tokens>>

\* The application exits.  A wait that is under way is woken; one that
\* subscribes later sees no change (watch::Receiver.changed).
Shutdown ==
    /\ ~shutdown /\ shutdown' = TRUE
    /\ heard' = (ctl = "Start")
    /\ UNCHANGED <<ctl, stop, errors, session, pipewire, pw_stop, status, frames, current,
                   changes>>

\* The supervisor's last step stops the pipeline it keeps.
ShutdownStops == shutdown /\ Stop

TeardownRequested == stop \/ shutdown

\* report_once
Fail == errors' = 1 /\ stop' = TRUE

-----------------------------------------------------------------------------
(* The controller: prepare_portal.                                         *)

\* An error of the dance is returned as it is: nobody calls Close, the portal
\* client is dropped, and the portal ends the session with its connection.
GiveUp == /\ Fail /\ ctl' = "Done"
          /\ session' = IF session = "Open" THEN "Dropped" ELSE session

\* create_session, select_sources and open_pipewire_remote wait for the
\* portal alone.
Dance(from, to) ==
    /\ ctl = from
    /\ \/ /\ ctl' = to /\ session' = "Open" /\ UNCHANGED <<stop, errors>>
       \/ GiveUp
    /\ UNCHANGED <<pipewire, pw_stop, status, frames, current, changes, tokens>>

CreateSession      == Dance("Create", "Select")
SelectSources      == Dance("Select", "Start")
OpenPipewireRemote == Dance("Open", "Spawn")

\* start: the user accepts, or cancels, or takes his time.
StartAnswered == Dance("Start", "Open")

NotAborted == FALSE
Aborted    == stop \/ heard

StartAborted ==
    /\ ctl = "Start" /\ Aborted /\ GiveUp
    /\ UNCHANGED <<pipewire, pw_stop, status, frames, current, changes, tokens>>

SpawnCapture ==
    /\ ctl = "Spawn"
    /\ \/ /\ pw' = "Connect" /\ ctl' = "Wait" /\ UNCHANGED <<stop, errors, session>>
       \/ GiveUp /\ UNCHANGED pw
    /\ UNCHANGED <<format, format_sent, pw_stop, status, frames, current, changes, tokens>>

\* wait_for_format
FormatArrives ==
    /\ ctl = "Wait" /\ status # <<>> /\ Head(status) # "Err"
    /\ ctl' = "Encode" /\ current' = Head(status) /\ status' = Tail(status)
    /\ UNCHANGED <<stop, errors, session, pipewire, pw_stop, frames, changes, tokens>>

\* The thread reports an error, or ends without a word, or there is a stop;
\* then it is told to stop, ...
NegotiationFails ==
    /\ ctl = "Wait"
    /\ \/ status # <<>> /\ Head(status) = "Err"
       \/ status = <<>> /\ (TeardownRequested \/ pw = "Ended")
    /\ ctl' = "Undo" /\ pw_stop' = TRUE
    /\ UNCHANGED <<stop, errors, session, pipewire, status, frames, current, changes, tokens>>

\* ... joined, and the session closed.
CaptureNotJoined == TRUE
CaptureJoined    == pw = "Ended"

UndoNegotiation ==
    /\ ctl = "Undo" /\ CaptureJoined
    /\ Fail /\ ctl' = "Done" /\ session' = "Closed"
    /\ UNCHANGED <<pipewire, pw_stop, status, frames, current, changes, tokens>>

-----------------------------------------------------------------------------
(* The controller: its loop and teardown_portal.                           *)

\* EncoderState::spawn.  Where it fails the portal state is dropped as it is,
\* its thread not told.
FirstEncoder ==
    /\ ctl = "Encode"
    /\ \/ ctl' = "Loop" /\ UNCHANGED <<stop, errors, session>>
       \/ GiveUp
    /\ UNCHANGED <<pipewire, pw_stop, status, frames, current, changes, tokens>>

\* A report of the capture thread: a format would restart the encoder, an
\* error ends the pipeline.
ReadStatus ==
    /\ ctl = "Loop" /\ ~TeardownRequested /\ status # <<>>
    /\ status' = Tail(status)
    /\ IF Head(status) = "Err"
       THEN Fail /\ ctl' = "Teardown" /\ UNCHANGED current
       ELSE current' = Head(status) /\ UNCHANGED <<ctl, stop, errors>>
    /\ UNCHANGED <<session, pipewire, pw_stop, frames, changes, tokens>>

Feed ==
    /\ ctl = "Loop" /\ ~TeardownRequested /\ status = <<>> /\ frames # None
    /\ frames' = None
    /\ UNCHANGED <<ctl, stop, errors, session, pipewire, pw_stop, status, current, changes, tokens>>

\* ffmpeg exits.
EncoderDies ==
    /\ ctl = "Loop" /\ ~TeardownRequested /\ status = <<>>
    /\ Fail /\ ctl' = "Teardown"
    /\ UNCHANGED <<session, pipewire, pw_stop, status, frames, current, changes, tokens>>

LeavePortalLoop ==
    /\ ctl = "Loop" /\ TeardownRequested /\ ctl' = "Teardown"
    /\ UNCHANGED <<stop, errors, session, pipewire, pw_stop, status, frames, current, changes, tokens>>

\* teardown_portal: the thread is told and joined, the session closed; then
\* the encoder is torn down.
TeardownStops ==
    /\ ctl = "Teardown" /\ ctl' = "Join" /\ pw_stop' = TRUE
    /\ UNCHANGED <<stop, errors, session, pipewire, status, frames, current, changes, tokens>>

TeardownJoins ==
    /\ ctl = "Join" /\ CaptureJoined
    /\ ctl' = "Done" /\ session' = "Closed"
    /\ UNCHANGED <<stop, errors, pipewire, pw_stop, status, frames, current, changes, tokens>>

-----------------------------------------------------------------------------
(* The capture thread.                                                     *)

Alive == pw \in {"Connect", "Stream"}

\* run_pipewire_capture up to its loop; an error there is not reported.
Connect ==
    /\ pw = "Connect" /\ pw' \in {"Stream", "Ended"}
    /\ UNCHANGED <<ctl, stop, errors, session, format, format_sent, pw_stop, status, frames,
                   current, changes, tokens>>

\* param_changed: only the first format, or that it is unusable, is reported;
\* the frames that follow are checked against the newest one.
ReportFirst(f) == status' = IF format_sent THEN status ELSE Append(status, f)

ParamChanged(f) ==
    /\ pw = "Stream" /\ f # format
    /\ format_sent => changes < MaxChanges
    /\ changes' = IF format_sent THEN changes + 1 ELSE changes
    /\ format' = f /\ format_sent' = TRUE
    /\ ReportFirst(f) \/ (~format_sent /\ ReportFirst("Err"))
    /\ UNCHANGED <<ctl, stop, errors, session, pw, pw_stop, frames, current, tokens>>

\* process: a whole frame goes into the (drop-oldest) queue.
Process ==
    /\ pw = "Stream" /\ format_sent
    /\ frames' = format
    /\ UNCHANGED <<ctl, stop, errors, session, pipewire, pw_stop, status, current, changes, tokens>>

\* The stop flag, or a stream in the error state, ends the loop.
StreamFails ==
    /\ pw = "Stream" /\ ~pw_stop
    /\ pw' = "Ended" /\ status' = Append(status, "Err")
    /\ UNCHANGED <<ctl, stop, errors, session, format, format_sent, pw_stop, frames, current,
                   changes, tokens>>

CaptureStops ==
    /\ pw = "Stream" /\ pw_stop
    /\ pw' = "Ended"
    /\ UNCHANGED <<ctl, stop, errors, session, format, format_sent, pw_stop, status, frames,
                   current, changes, tokens>>

-----------------------------------------------------------------------------

Negotiation == \/ CreateSession \/ SelectSources \/ StartAborted \/ OpenPipewireRemote
               \/ SpawnCapture \/ FormatArrives \/ NegotiationFails \/ UndoNegotiation

Controller == \/ Negotiation \/ FirstEncoder \/ ReadStatus \/ Feed \/ LeavePortalLoop
              \/ TeardownStops \/ TeardownJoins

CaptureThread == Connect \/ Process \/ CaptureStops \/ \E f \in Formats : ParamChanged(f)

PortalNext == \/ Stop \/ Shutdown \/ StartAnswered \/ EncoderDies \/ StreamFails
        \/ Controller \/ CaptureThread

PortalSpec == PortalInit /\ [][PortalNext]_portalVars

\* Both threads run, the portal answers what needs no user, and a stop flag
\* is looked at every POLL_INTERVAL; after the token the supervisor stops the
\* pipeline.  The user need not answer at all, and PipeWire need not negotiate.
PortalFairSpec == /\ PortalSpec
            /\ WF_portalVars(Controller) /\ WF_portalVars(Connect) /\ WF_portalVars(CaptureStops)
            /\ WF_portalVars(ShutdownStops)

-----------------------------------------------------------------------------
(* Properties.                                                             *)

\* Types and bounds: at most a format and an error are reported to the
\* controller (format_sent), and the pipeline sends one StreamError at most.
PortalOK ==
    /\ ctl \in {"Create", "Select", "Start", "Open", "Spawn", "Wait", "Undo", "Encode",
                "Loop", "Teardown", "Join", "Done"}
    /\ {stop, shutdown, heard, pw_stop, format_sent} \subseteq BOOLEAN /\ errors \in 0..1
    /\ session \in {"None", "Open", "Closed", "Dropped"}
    /\ pw \in {"None", "Connect", "Stream", "Ended"}
    /\ {format, frames, current} \subseteq Formats \cup {None}
    /\ status \in Seq(Formats \cup {"Err"}) /\ Len(status) <= 2
    /\ changes \in 0..MaxChanges

\* "Stop the pipeline and join every thread" (ScreenBridge.join): when the
\* controller ends, no capture thread runs and no session is open, wherever
\* the negotiation or the capture broke off; the session of a thread that was
\* started is closed by a call, any other left to the end of its client.  The
\* exception is a first ffmpeg that cannot be started (controller.rs, the
\* return after spawn).
NothingAcquired ==
    [][/\ PortalOK'
       /\ ctl' = "Done" /\ ctl \notin {"Encode", "Done"}
            => ~Alive' /\ session' # "Open" /\ (pw' # "None" => session' = "Closed")]_portalVars

\* "a pending share dialog or a stalled stream must never block shutdown
\* forever" (wait_for_format).
StopCompletes == TeardownRequested ~> (ctl = "Done")

=============================================================================

----------------------------- MODULE Connection -----------------------------
(***************************************************************************)
(* The cast connection task (src/cast/connection/state_machine.rs): one    *)
(* tokio task that owns the session with the selected receiver, a reader   *)
(* thread per transport, and the receivers at the other end.               *)
(*                                                                         *)
(* The task runs `loop { select! {...}; reap }`.  One action is one whole  *)
(* branch of the select, from the event that woke it to the end of its     *)
(* handler; the handler's awaits only wait for socket writes, whose        *)
(* outcome is a choice, so what other actors can do meanwhile (queue a     *)
(* frame, queue a command, trigger the token) commutes with the handler    *)
(* except for the token, which the select samples when it is entered.      *)
(* That is why the loop has two control points, "Parked" (inside select)   *)
(* and "Busy" (a handler ran, the select is not yet re-entered).           *)
(*                                                                         *)
(* out and emit hold the messages the task tried to write and the events   *)
(* it sent in the current iteration; LoopAgain clears them.                *)
(*                                                                         *)
(* Request ids and the pending map influence nothing but the log here:     *)
(* they are modelled in RequestId.tla.                                     *)
(***************************************************************************)
EXTENDS Naturals, Sequences

CONSTANTS
    Devices,      \* receivers the user can select
    Media,        \* content a LOAD can name
    Transports,   \* TLS connections that can exist at once (a bound)
    OwnApps,      \* application instances our LAUNCHes start (a bound)
    OtherApps,    \* application instances other clients start (a bound)
    Ops,          \* the commands the backend issues, by name (a bound)
    Upsets,       \* the disturbances that happen, by name (a bound)
    MaxRetries,   \* delays config.backoff yields (5 in the default policy)
    MaxQueue,     \* bound on the command channel
    MaxFrames,    \* bound on the frames a reader has queued
    None          \* Option::None

Apps == OwnApps \cup OtherApps

SimpleOps == {"LaunchDefaultReceiver", "Play", "Pause", "Stop", "SetVolume", "GetStatus", "Shutdown"}

ASSUME ConnectionAssumption ==
    /\ None \notin Devices
    /\ None \notin Media
    /\ None \notin Transports
    /\ None \notin Apps
    /\ Ops \subseteq SimpleOps \cup {"Select", "Load"}
    /\ Upsets \subseteq {"TriggerToken", "DropSenders", "OtherClient"}
    /\ MaxRetries \in Nat
    /\ MaxQueue \in Nat
    /\ MaxFrames \in Nat

Maybe(S) == S \cup {None}

Phases == {"Disconnected", "Connected", "Launching", "Ready", "Streaming"}

Command == [op : {"Select"}, arg : Devices]
           \cup [op : {"Load"}, arg : Media]
           \cup [op : SimpleOps, arg : {None}]

Frame == [type : {"RECEIVER_STATUS", "PONG", "MEDIA_STATUS", "Other", "Exit"},
          transportId : Maybe(Apps), sessionId : Maybe(Apps)]

Exit == [type |-> "Exit", transportId |-> None, sessionId |-> None]

VARIABLES
    \* Session (all None while phase = "Disconnected": state.session is None)
    phase, device, transport, transport_id, session_id, pending_command,
    \* RunState
    desired, inbound, heartbeat, watchdog,
    reconnect,    \* device of the scheduled reconnect, or None
    backoff,      \* delays its backoff iterator has left
    attempts,     \* failed attempts so far
    \* the run loop
    pc, armed,    \* armed: this select polls the shutdown branch
    \* the command channel, its senders, the shutdown token
    commands, senders, token,
    \* transports, their reader threads and frame channels
    open, reader, frames,
    \* the receivers: running application, LAUNCHes not yet handled
    app, launch_req,
    \* this iteration's writes and events
    out, emit

session  == <<phase, device, transport, transport_id, session_id, pending_command>>
links    == <<inbound, heartbeat, watchdog, open, reader, frames>>
plan     == <<desired, reconnect, backoff, attempts>>
control  == <<pc, armed>>
inputs   == <<commands, senders, token>>
receiver == <<app, launch_req>>
vars     == <<session, links, plan, control, inputs, receiver, out, emit>>

Msg(type, dest) == [type |-> type, dest |-> dest]
Event(ev, arg)  == [ev |-> ev, arg |-> arg]

Init ==
    /\ phase = "Disconnected" /\ device = None /\ transport = None
    /\ transport_id = None /\ session_id = None /\ pending_command = None
    /\ desired = None /\ inbound = None /\ heartbeat = FALSE /\ watchdog = FALSE
    /\ reconnect = None /\ backoff = 0 /\ attempts = 0
    /\ pc = "Busy" /\ armed = FALSE
    /\ commands = <<>> /\ senders = TRUE /\ token = FALSE
    /\ open = {}
    /\ reader = [t \in Transports |-> "Exited"]
    /\ frames = [t \in Transports |-> <<>>]
    /\ app \in [Devices -> Maybe(OtherApps)]
    /\ \A d, e \in Devices : app[d] = app[e] => d = e \/ app[d] = None
    /\ launch_req = {}
    /\ out = <<>> /\ emit = <<>>

-----------------------------------------------------------------------------
(* Building blocks of the handlers.                                        *)

HasSession == phase # "Disconnected"

\* frames with the channels of the transports in T emptied.
DropChannels(T) == [t \in Transports |-> IF t \in T THEN <<>> ELSE frames[t]]

\* teardown_session: the best-effort writes, for a session left in phase ph
\* with the given ids.
TeardownMsgs(ph, tid, sid) ==
    IF ~HasSession \/ sid = None
    THEN <<>>
    ELSE (IF ph = "Streaming" THEN <<Msg("STOP", tid)>> ELSE <<>>) \o <<Msg("STOP_APP", sid)>>

NoTeardownEvents == <<>>
TeardownEvents == IF HasSession THEN <<Event("Disconnected", device)>> ELSE <<>>

\* What the receiver may be running after a best-effort STOP_APP(sid).
AppsAfterStop(sid) ==
    IF HasSession /\ sid # None /\ app[device] = sid
    THEN {app, [app EXCEPT ![device] = None]}
    ELSE {app}

\* The transports still open once the session's own is closed.
StillOpenLeaky == open
StillOpen == open \ {transport}

\* teardown_session: the frame channel and both timers are dropped.
DropLinksButWatchdog == inbound' = None /\ heartbeat' = FALSE /\ UNCHANGED watchdog
DropLinks == inbound' = None /\ heartbeat' = FALSE /\ watchdog' = FALSE

\* teardown_session: state.session taken, the transport closed, the frame
\* channel and both timers dropped.  Without a session it returns at once.
CloseSession ==
    IF HasSession
    THEN /\ phase' = "Disconnected" /\ device' = None /\ transport' = None
         /\ transport_id' = None /\ session_id' = None /\ pending_command' = None
         /\ DropLinks
         /\ open' = StillOpen
         /\ frames' = DropChannels({transport})
         /\ UNCHANGED reader
    ELSE UNCHANGED <<session, links>>

\* establish, successful: connect, CONNECT to receiver-0, reader thread, new
\* Session in phase Connected, timers armed.  A session torn down earlier in
\* the same handler has had its transport closed and its channel dropped.
OpenSession(d) ==
    \E t \in Transports :
        /\ t \notin open /\ reader[t] # "Running"
        /\ phase' = "Connected" /\ device' = d /\ transport' = t
        /\ transport_id' = None /\ session_id' = None /\ pending_command' = None
        /\ inbound' = t /\ heartbeat' = TRUE /\ watchdog' = TRUE
        /\ open' = StillOpen \cup {t}
        /\ reader' = [reader EXCEPT ![t] = "Running"]
        /\ frames' = DropChannels({transport, t})

\* establish, the writes and events of a failed one: the connect is refused,
\* or (after a possible certificate warning) the CONNECT write or the reader
\* thread fails.
PinEvents(d) == {<<>>, <<Event("CertificateMismatch", d)>>}
FailedEstablish(d) ==
    {[msgs |-> <<>>, evs |-> <<>>]}
    \cup {[msgs |-> <<Msg("CONNECT", "receiver-0")>>, evs |-> pin] : pin \in PinEvents(d)}

\* Backoff::next yields a delay while some are left.
HasDelayOffByOne(remaining) == remaining >= 0
HasDelay(remaining) == remaining > 0

\* Nothing is scheduled any more (state.reconnect = None).
KeepReconnect == UNCHANGED <<reconnect, backoff, attempts>>
CancelReconnect == reconnect' = None /\ backoff' = 0 /\ attempts' = 0

\* connection_lost: the first attempt, with a fresh copy of the policy.
ScheduleNothing == UNCHANGED <<reconnect, backoff, attempts>>
ScheduleReconnect == reconnect' = desired /\ backoff' = MaxRetries - 1 /\ attempts' = 0

\* connection_lost, after the handler left the session in phase ph with the
\* given ids, having tried to write msgs and sent evs.
ConnectionLost(ph, tid, sid, msgs, evs) ==
    /\ CloseSession
    /\ app' \in AppsAfterStop(sid)
    /\ out' = msgs \o TeardownMsgs(ph, tid, sid)
    /\ UNCHANGED launch_req
    /\ IF desired = None
       THEN /\ emit' = evs \o TeardownEvents
            /\ UNCHANGED plan
       ELSE IF HasDelay(MaxRetries)
       THEN /\ ScheduleReconnect
            /\ emit' = evs \o TeardownEvents
            /\ UNCHANGED desired
       ELSE /\ emit' = evs \o TeardownEvents \o <<Event("ReconnectExhausted", 0)>>
            /\ desired' = None
            /\ UNCHANGED <<reconnect, backoff, attempts>>

Quiet == out' = <<>> /\ emit' = <<>>

\* Every branch of the select starts parked; most end by iterating.
Branch == pc = "Parked" /\ UNCHANGED armed
Iterate == pc' = "Busy"

\* commands.recv() yields a command named op.
Recv(op) ==
    /\ Branch
    /\ commands # <<>> /\ Head(commands).op = op
    /\ commands' = Tail(commands)
    /\ UNCHANGED <<senders, token>>

\* A handler that writes one message, leaving the session in phase ph with
\* pending queued; a failed write is a lost connection.
Send(msg, ph, pending) ==
    \/ /\ phase' = ph /\ pending_command' = pending
       /\ out' = <<msg>> /\ emit' = <<>>
       /\ launch_req' = IF msg.type = "LAUNCH" THEN launch_req \cup {device} ELSE launch_req
       /\ UNCHANGED <<device, transport, transport_id, session_id, links, plan, app>>
    \/ ConnectionLost(ph, transport_id, session_id, <<msg>>, <<>>)

\* CONNECT to the media destination, then LOAD (the Ready/Streaming arm of
\* Load, and dispatch_pending), for a session in phase ph with the given ids;
\* evs were sent before, popped is frames less the frame being handled.
LoadMedia(media, ph, tid, sid, evs, popped) ==
    LET con  == Msg("CONNECT", tid)
        load == [type |-> "LOAD", dest |-> tid, media |-> media]
    IN  \/ /\ phase' = "Streaming" /\ pending_command' = None
           /\ transport_id' = tid /\ session_id' = sid
           /\ frames' = popped
           /\ out' = <<con, load>> /\ emit' = evs
           /\ UNCHANGED <<device, transport, inbound, heartbeat, watchdog, open, reader,
                          plan, receiver>>
        \/ ConnectionLost(ph, tid, sid, <<con>>, evs)
        \/ ConnectionLost("Streaming", tid, sid, <<con, load>>, evs)

-----------------------------------------------------------------------------
(* Commands (run, the commands.recv() branch, and handle_command).         *)

Select(d) ==
    /\ Recv("Select") /\ Head(commands).arg = d
    /\ Iterate
    /\ CancelReconnect
    /\ app' \in AppsAfterStop(session_id)
    /\ UNCHANGED launch_req
    /\ LET msgs == TeardownMsgs(phase, transport_id, session_id)
       IN  \/ \E pin \in PinEvents(d) :
                /\ OpenSession(d)
                /\ desired' = d
                /\ out' = msgs \o <<Msg("CONNECT", "receiver-0")>>
                /\ emit' = TeardownEvents \o pin \o <<Event("Connected", d)>>
           \/ \E failed \in FailedEstablish(d) :
                /\ CloseSession
                /\ desired' = None
                /\ out' = msgs \o failed.msgs
                /\ emit' = TeardownEvents \o failed.evs \o <<Event("Error", d)>>

\* A version that takes a LOAD only when it can be written at once.
AcceptsLoadLate(op) ==
    CASE op = "LaunchDefaultReceiver" -> phase = "Connected"
      [] op \in {"Load", "Play", "Pause", "Stop"} -> phase \in {"Ready", "Streaming"}
      [] OTHER                        -> HasSession

\* Whether handle_command acts on the command in the current phase.
Accepts(op) ==
    CASE op = "LaunchDefaultReceiver"     -> phase = "Connected"
      [] op = "Load"                      -> phase \in {"Connected", "Ready", "Streaming"}
      [] op \in {"Play", "Pause", "Stop"} -> phase \in {"Ready", "Streaming"}
      [] OTHER                            -> HasSession

\* "ignoring command while disconnected", "... ignored outside ...".
IgnoreCommand(op) ==
    /\ Recv(op) /\ op \notin {"Select", "Shutdown"} /\ ~Accepts(op)
    /\ Iterate /\ Quiet
    /\ UNCHANGED <<session, links, plan, receiver>>

LaunchDefaultReceiver ==
    /\ Recv("LaunchDefaultReceiver") /\ Accepts("LaunchDefaultReceiver")
    /\ Iterate
    /\ Send(Msg("LAUNCH", "receiver-0"), "Launching", pending_command)

Load ==
    /\ Recv("Load") /\ Accepts("Load")
    /\ Iterate
    /\ LET media == Head(commands).arg
       IN  \/ /\ phase = "Connected"
              /\ Send(Msg("LAUNCH", "receiver-0"), "Launching", media)
           \/ /\ phase # "Connected"
              /\ LoadMedia(media, phase, transport_id, session_id, <<>>, frames)

PlayPause(op) ==
    /\ Recv(op) /\ Accepts(op)
    /\ Iterate
    /\ Send(Msg(op, transport_id), phase, pending_command)

Stop ==
    /\ Recv("Stop") /\ Accepts("Stop")
    /\ Iterate
    /\ Send(Msg("STOP", transport_id), "Ready", pending_command)

SetVolumeGetStatus(op) ==
    /\ Recv(op) /\ Accepts(op)
    /\ Iterate
    /\ Send(Msg(op, "receiver-0"), phase, pending_command)

\* teardown_session and break.
TeardownAndExit ==
    /\ CloseSession
    /\ app' \in AppsAfterStop(session_id)
    /\ out' = TeardownMsgs(phase, transport_id, session_id)
    /\ emit' = TeardownEvents
    /\ pc' = "Ended"
    /\ UNCHANGED <<plan, launch_req>>

Shutdown == Recv("Shutdown") /\ TeardownAndExit

\* commands.recv() is None: all senders dropped, break without teardown.
CommandsClosed ==
    /\ Branch
    /\ commands = <<>> /\ ~senders
    /\ pc' = "Ended" /\ Quiet
    /\ UNCHANGED <<session, links, plan, inputs, receiver>>

-----------------------------------------------------------------------------
(* The other branches of the select.                                       *)

\* apply_receiver_status: the ids a Ready session needs.
AppKnown(tid, sid) == tid # None /\ sid # None

\* Whether the queued LOAD is dispatched once a frame left the session in ph.
DispatchDue(ph) == HasSession /\ ph = "Ready" /\ pending_command # None

\* A frame from the reader: route_inbound, then dispatch of the queued LOAD.
InboundFrame ==
    /\ Branch
    /\ inbound # None /\ frames[inbound] # <<>>
    /\ Head(frames[inbound]).type # "Exit"
    /\ Iterate
    /\ UNCHANGED inputs
    /\ LET f      == Head(frames[inbound])
           popped == [frames EXCEPT ![inbound] = Tail(@)]
           tid    == IF f.transportId # None THEN f.transportId ELSE transport_id
           sid    == IF f.sessionId # None THEN f.sessionId ELSE session_id
           ready  == /\ f.type = "RECEIVER_STATUS" /\ phase = "Launching"
                     /\ AppKnown(tid, sid)
           ph     == IF ready THEN "Ready" ELSE phase
           evs    == IF ready THEN <<Event("Ready", sid)>> ELSE <<>>
       IN  IF DispatchDue(ph)
           THEN LoadMedia(pending_command, ph, tid, sid, evs, popped)
           ELSE /\ IF HasSession
                   THEN phase' = ph /\ transport_id' = tid /\ session_id' = sid /\ emit' = evs
                   ELSE UNCHANGED <<phase, transport_id, session_id>> /\ emit' = <<>>
                /\ frames' = popped
                /\ out' = <<>>
                /\ UNCHANGED <<device, transport, pending_command, inbound, heartbeat,
                               watchdog, open, reader, plan, receiver>>

\* The reader exited.
InboundExit ==
    /\ Branch
    /\ inbound # None /\ frames[inbound] # <<>>
    /\ Head(frames[inbound]).type = "Exit"
    /\ Iterate
    /\ UNCHANGED inputs
    /\ IF HasSession
       THEN ConnectionLost(phase, transport_id, session_id, <<>>, <<>>)
       ELSE /\ inbound' = None /\ Quiet
            /\ UNCHANGED <<session, heartbeat, watchdog, open, reader, frames, plan, receiver>>

\* The heartbeat interval elapsed: PING, and re-arm.
Heartbeat ==
    /\ Branch
    /\ heartbeat
    /\ Iterate
    /\ UNCHANGED inputs
    /\ IF HasSession
       THEN Send(Msg("PING", "transport-0"), phase, pending_command)
       ELSE /\ heartbeat' = FALSE /\ Quiet
            /\ UNCHANGED <<session, inbound, watchdog, open, reader, frames, plan, receiver>>

\* No PONG within the watchdog window.
Watchdog ==
    /\ Branch
    /\ watchdog
    /\ Iterate
    /\ UNCHANGED inputs
    /\ IF HasSession
       THEN ConnectionLost(phase, transport_id, session_id, <<>>, <<>>)
       ELSE /\ watchdog' = FALSE /\ Quiet
            /\ UNCHANGED <<session, inbound, heartbeat, open, reader, frames, plan, receiver>>

\* The reconnect delay elapsed and the receiver answered.
Reconnected ==
    /\ Branch
    /\ reconnect # None
    /\ Iterate
    /\ OpenSession(reconnect)
    /\ CancelReconnect
    /\ out' = <<Msg("CONNECT", "receiver-0")>>
    /\ \E pin \in PinEvents(reconnect) : emit' = pin \o <<Event("Connected", reconnect)>>
    /\ UNCHANGED <<desired, inputs, receiver>>

\* The reconnect delay elapsed and the attempt failed.
ReconnectFailed ==
    /\ Branch
    /\ reconnect # None
    /\ Iterate
    /\ \E failed \in FailedEstablish(reconnect) :
         /\ out' = failed.msgs
         /\ IF HasDelay(backoff)
            THEN /\ backoff' = backoff - 1 /\ attempts' = attempts + 1
                 /\ emit' = failed.evs
                 /\ UNCHANGED <<desired, reconnect>>
            ELSE /\ CancelReconnect
                 /\ desired' = None
                 /\ emit' = failed.evs \o <<Event("ReconnectExhausted", attempts + 1)>>
    /\ UNCHANGED <<session, links, inputs, receiver>>

\* The shutdown branch, polled only if the token was unset at select entry.
ShutdownToken ==
    /\ Branch
    /\ armed /\ token
    /\ TeardownAndExit
    /\ UNCHANGED inputs

\* The end of an iteration and the entry of the next select.
LoopAgain ==
    /\ pc = "Busy"
    /\ pc' = "Parked" /\ armed' = ~token
    /\ Quiet
    /\ UNCHANGED <<session, links, plan, inputs, receiver>>

-----------------------------------------------------------------------------
(* Reader threads (reader.rs).                                             *)

\* Something still receives from the channel of transport t.
ChannelAlive(t) == inbound = t /\ pc # "Ended"

\* Frames the receiver of the session can send now, as parse_receiver_status
\* reads them: the ids of the application that runs, whoever launched it.
ReceiverFrames ==
    [type : {"PONG", "MEDIA_STATUS", "Other"}, transportId : {None}, sessionId : {None}]
    \cup [type : {"RECEIVER_STATUS"},
          transportId : {None, app[device]}, sessionId : {None, app[device]}]

\* A complete frame was read and queued.
ReaderFrame(t) ==
    /\ reader[t] = "Running" /\ t \in open
    /\ ChannelAlive(t) /\ HasSession
    /\ Len(frames[t]) < MaxFrames
    /\ \E f \in ReceiverFrames : frames' = [frames EXCEPT ![t] = Append(@, f)]
    /\ UNCHANGED <<session, inbound, heartbeat, watchdog, open, reader, plan, control,
                   inputs, receiver, out, emit>>

\* The loop ends: shutdown token, EOF, read or protocol error, or a frame
\* nobody receives.  A live channel gets the final None.
ReaderExit(t) ==
    /\ reader[t] = "Running"
    /\ reader' = [reader EXCEPT ![t] = "Exited"]
    /\ frames' = IF ChannelAlive(t) THEN [frames EXCEPT ![t] = Append(@, Exit)] ELSE frames
    /\ UNCHANGED <<session, inbound, heartbeat, watchdog, open, plan, control, inputs,
                   receiver, out, emit>>

-----------------------------------------------------------------------------
(* The environment: backend, shutdown token, receivers.                    *)

SendCommand(c) ==
    /\ senders /\ pc # "Ended"
    /\ c.op \in Ops
    /\ Len(commands) < MaxQueue
    /\ commands' = Append(commands, c)
    /\ UNCHANGED <<session, links, plan, control, senders, token, receiver, out, emit>>

DropSenders ==
    /\ "DropSenders" \in Upsets
    /\ senders /\ senders' = FALSE
    /\ UNCHANGED <<session, links, plan, control, commands, token, receiver, out, emit>>

TriggerToken ==
    /\ "TriggerToken" \in Upsets
    /\ ~token /\ token' = TRUE
    /\ UNCHANGED <<session, links, plan, control, commands, senders, receiver, out, emit>>

\* Application instances nobody refers to, free to stand for a new one.
FreeApps ==
    LET queued == UNION {{frames[t][i] : i \in DOMAIN frames[t]} : t \in Transports}
    IN  Apps \ ({app[d] : d \in Devices} \cup {transport_id, session_id}
                \cup {f.transportId : f \in queued} \cup {f.sessionId : f \in queued})

\* The receiver handles a LAUNCH by starting an application ...
ReceiverLaunches(d) ==
    /\ d \in launch_req
    /\ launch_req' = launch_req \ {d}
    /\ \E a \in FreeApps \cap OwnApps : app' = [app EXCEPT ![d] = a]
    /\ UNCHANGED <<session, links, plan, control, inputs, out, emit>>

\* ... or by refusing it (LAUNCH_ERROR, an Other frame).
ReceiverRefuses(d) ==
    /\ d \in launch_req
    /\ launch_req' = launch_req \ {d}
    /\ UNCHANGED <<session, links, plan, control, inputs, app, out, emit>>

\* Another client starts an application, or the running one ends.
OtherClient(d) ==
    /\ "OtherClient" \in Upsets
    /\ \E a \in Maybe(FreeApps \cap OtherApps) \ {app[d]} : app' = [app EXCEPT ![d] = a]
    /\ UNCHANGED <<session, links, plan, control, inputs, launch_req, out, emit>>

-----------------------------------------------------------------------------

HandleCommand ==
    \/ \E d \in Devices : Select(d)
    \/ \E op \in SimpleOps \cup {"Load"} : IgnoreCommand(op)
    \/ LaunchDefaultReceiver
    \/ Load
    \/ \E op \in {"Play", "Pause"} : PlayPause(op)
    \/ Stop
    \/ \E op \in {"SetVolume", "GetStatus"} : SetVolumeGetStatus(op)
    \/ Shutdown
    \/ CommandsClosed

Inbound == InboundFrame \/ InboundExit
ReconnectDue == Reconnected \/ ReconnectFailed

\* The connection task.
Run ==
    \/ HandleCommand
    \/ Inbound
    \/ Heartbeat
    \/ Watchdog
    \/ ReconnectDue
    \/ ShutdownToken
    \/ LoopAgain

Environment ==
    \/ \E t \in Transports : ReaderFrame(t) \/ ReaderExit(t)
    \/ \E c \in Command : SendCommand(c)
    \/ DropSenders
    \/ TriggerToken
    \/ \E d \in Devices : ReceiverLaunches(d) \/ ReceiverRefuses(d) \/ OtherClient(d)

Next == Run \/ Environment

Spec == Init /\ [][Next]_vars

\* A reader polls the token and its socket every READ_POLL_INTERVAL.
ReaderMustExit(t) == (token \/ t \notin open) /\ ReaderExit(t)

\* tokio polls the branches of a select in random order: a branch that is ready
\* in infinitely many selects is taken.  The delays of armed timers elapse.
Fairness ==
    /\ WF_vars(LoopAgain)
    /\ SF_vars(HandleCommand)
    /\ SF_vars(Inbound)
    /\ SF_vars(ReconnectDue)
    /\ SF_vars(ShutdownToken)
    /\ \A t \in Transports : WF_vars(ReaderMustExit(t))

FairSpec == Spec /\ Fairness

-----------------------------------------------------------------------------

\* The variables hold values of the types the code declares.
TypeOK ==
    /\ phase \in Phases /\ device \in Maybe(Devices) /\ transport \in Maybe(Transports)
    /\ transport_id \in Maybe(Apps) /\ session_id \in Maybe(Apps)
    /\ pending_command \in Maybe(Media)
    /\ desired \in Maybe(Devices) /\ inbound \in Maybe(Transports)
    /\ heartbeat \in BOOLEAN /\ watchdog \in BOOLEAN
    /\ reconnect \in Maybe(Devices) /\ backoff \in Nat /\ attempts \in Nat
    /\ pc \in {"Busy", "Parked", "Ended"} /\ armed \in BOOLEAN
    /\ commands \in Seq(Command) /\ senders \in BOOLEAN /\ token \in BOOLEAN
    /\ open \subseteq Transports
    /\ reader \in [Transports -> {"Running", "Exited"}]
    /\ frames \in [Transports -> Seq(Frame)]
    /\ app \in [Devices -> Maybe(Apps)]
    /\ launch_req \subseteq Devices

\* Outside a handler, a session is always one with the receiver the user last
\* selected, and a selected receiver without a session always has a reconnect
\* scheduled: re-selection, loss, failed attempts and exhaustion (run,
\* connection_lost) never leave a stale session, two plans at once, or a
\* selection nobody works on.
SessionMatchesSelection ==
    /\ HasSession => device # None /\ device = desired /\ reconnect = None
    /\ reconnect # None => reconnect = desired
    /\ pc # "Ended" /\ desired # None /\ ~HasSession => reconnect = desired

\* The frame channel, the heartbeat and the watchdog exist exactly while a
\* session does, and the channel is the one of the session's own transport: no
\* frame of an earlier transport and no timer of an earlier session can act on
\* this one (teardown_session, establish).
LiveSessionIsWatched ==
    /\ heartbeat = HasSession
    /\ watchdog = HasSession
    /\ inbound = transport
    /\ HasSession <=> transport # None

\* Every transport but the session's has been closed, through any sequence of
\* losses, re-selections and reconnects.
NoTransportLeak ==
    /\ open \subseteq {transport}
    /\ HasSession => transport \in open

\* A session accepting media commands knows its application: the expect in
\* the LOAD path never panics and media_destination never falls back.
ReadyHasApp ==
    phase \in {"Ready", "Streaming"} => transport_id # None /\ session_id # None

\* A LOAD is queued only while its LAUNCH is being answered: once the session
\* is Ready it has been dispatched, and a new transport starts without it
\* ("the queued LOAD is not replayed").
QueuedLoadAwaitsLaunch ==
    pending_command # None => phase = "Launching"

\* The reconnect policy is spent exactly: failed attempts and remaining delays
\* always add up to it (connection_lost takes a fresh copy of the policy).
ReconnectBudget ==
    reconnect # None => attempts + backoff + 1 = MaxRetries

\* Exhaustion is reported after the whole policy was tried, never earlier.
ExhaustedAfterBudget ==
    \A i \in DOMAIN emit : emit[i].ev = "ReconnectExhausted" => emit[i].arg = MaxRetries

\* No session, nothing of a session.
NoSessionIsEmpty ==
    ~HasSession =>
        /\ device = None
        /\ transport_id = None /\ session_id = None /\ pending_command = None

\* What holds of the task between two handlers, and the inductive invariant:
\* session, timers, frame channel, queued LOAD and reconnect plan always fit
\* together, and each part needs the others to survive the next handler.
SessionInv ==
    /\ TypeOK
    /\ NoSessionIsEmpty
    /\ SessionMatchesSelection
    /\ LiveSessionIsWatched
    /\ NoTransportLeak
    /\ ReadyHasApp
    /\ QueuedLoadAwaitsLaunch
    /\ ReconnectBudget

\* The events of s say nothing of kind e; they say x and nothing else of its kind.
Silent(s, e) == \A i \in DOMAIN s : s[i].ev # e
Once(s, x)   == \E i \in DOMAIN s : s[i] = x /\ \A j \in DOMAIN s : s[j].ev = x.ev => j = i

\* The backend learns of every change of session, in order: Disconnected for
\* the old receiver before Connected for the new one, each exactly once.
EventsTellSession ==
    [][transport' # transport =>
         /\ IF HasSession THEN Once(emit', Event("Disconnected", device))
                          ELSE Silent(emit', "Disconnected")
         /\ IF transport' # None THEN Once(emit', Event("Connected", device'))
                                 ELSE Silent(emit', "Connected")
         /\ HasSession /\ transport' # None => emit'[Len(emit')].ev = "Connected"]_vars

\* A LOAD given to a session that is not just launching is queued behind the
\* LAUNCH or written, and a queued one leaves the queue only by being written
\* to the receiver or with its transport (handle_command, dispatch_pending).
Written(media) == \E i \in DOMAIN out' : out'[i].type = "LOAD" /\ out'[i].media = media

LoadIsKept ==
    [][transport' = transport =>
         /\ /\ commands # <<>> /\ commands' = Tail(commands) /\ Head(commands).op = "Load"
            /\ phase \notin {"Disconnected", "Launching"}
            => pending_command' = Head(commands).arg \/ Written(Head(commands).arg)
         /\ pending_command # None /\ pending_command' # pending_command
            => Written(pending_command)]_vars

\* The task implements the link it promises the backend.
Link == INSTANCE ReceiverLink WITH
            wanted <- desired, link <- device,
            ready <- phase \in {"Ready", "Streaming"}, over <- pc = "Ended"

ImplementsLink == Link!LinkSpec

\* A lost connection is resolved: under the scheduler's fairness a wanted
\* receiver without a session is reconnected, given up with an error, or
\* replaced; it never stays in limbo.
ImplementsFairLink == Link!FairLinkSpec

\* Once Command::Shutdown is queued, whatever is in progress, the task ends
\* with its transport closed and every reader thread gone.
ShutdownStops ==
    (\E i \in DOMAIN commands : commands[i].op = "Shutdown")
        ~> /\ pc = "Ended" /\ open = {}
           /\ \A t \in Transports : reader[t] = "Exited"

=============================================================================
